---- MODULE Spec2Model ----
(***************************************************************************)
(* The input reader of libs/ui/InputReader.cpp as a state machine.         *)
(*                                                                         *)
(* One step of the machine is one call of InputReader::loopOnce: the       *)
(* event hub hands over one raw event and process() runs the handler of    *)
(* its type to completion.  The reader's fields are the variables          *)
(* mDevices, mDisplay, mGlobalMetaState and mExported.  The collaborators  *)
(* (event hub, policy, dispatcher) are the environment: their answers are  *)
(* drawn from small sets in each step, and every call the reader makes on  *)
(* them during a step is written to `trace', the call log of the last      *)
(* loopOnce.                                                               *)
(*                                                                         *)
(* InputDevice, TouchData and BitSet32 are declared in ui/InputReader.h    *)
(* and ui/InputDevice.h, which are not part of the sources at hand; the    *)
(* definitions that stand for them are marked "header" below.              *)
(***************************************************************************)
EXTENDS Integers, Sequences, FiniteSets, TLC

VARIABLES
    mDevices,          \* KeyedVector<int32_t, InputDevice*>: device id -> record
    mDisplay,          \* [w, h, o]: mDisplayWidth, mDisplayHeight, mDisplayOrientation
    mGlobalMetaState,  \* cached OR of the keyboards' meta states, or InvalidMeta
    mExported,         \* the state guarded by mExportedStateLock
    now,               \* the monotonic clock read by loopOnce
    pending,           \* raw events the driver has written and loopOnce has not read
    trace,             \* calls made on the collaborators during the last loopOnce
    env,               \* what the event hub and the policy answer (fixed per run)
    mExportedStateLock,  \* Mutex: the thread that holds it, or Unlocked
    reader,            \* the reader thread: where it is inside loopOnce
    queries,           \* the threads that call the getCurrent... functions
    dispatcherSeen     \* per device, what the dispatcher has been told of its
                       \* pointers so far (kept when env.watch is set)

vars == <<mDevices, mDisplay, mGlobalMetaState, mExported, now, pending, trace, env,
          mExportedStateLock, reader, queries, dispatcherSeen>>

(***************************************************************************)
(* Bounds of the model.                                                    *)
(***************************************************************************)
MaxTime == 1          \* the clock runs 0..MaxTime and then stands still
MaxCoord == 2         \* raw x positions are 0..MaxCoord
MaxContacts == 2      \* contacts per driver report in the "frames" environment
MaxId == 2            \* the drivers' tracking ids are 0..MaxId
MaxBurst == 11        \* contacts per driver report in the "burst" environment
NumQueries == 2       \* threads that query the exported state

(***************************************************************************)
(* Program constants.  MAX_POINTERS and MAX_POINTER_ID come from the       *)
(* header (InputDevice.h).                                                 *)
(***************************************************************************)
MAX_POINTERS == 10
MAX_POINTER_ID == 31
TRACKBALL_MOVEMENT_THRESHOLD == 6

ROTATION_0 == 0
ROTATION_90 == 1
ROTATION_180 == 2
ROTATION_270 == 3

InvalidMeta == {"INVALID"}     \* mGlobalMetaState == -1

\* Virtual-key status (CurrentVirtualKeyState::Status).
STATUS_NONE == "NONE"
STATUS_DOWN == "DOWN"
STATUS_CANCELED == "CANCELED"
STATUS_UP == "UP"

\* Device classes.
CLASS_KEYBOARD == "KEYBOARD"
CLASS_ALPHAKEY == "ALPHAKEY"
CLASS_TOUCHSCREEN == "TOUCHSCREEN"
CLASS_TRACKBALL == "TRACKBALL"
CLASS_TOUCHSCREEN_MT == "TOUCHSCREEN_MT"
CLASS_DPAD == "DPAD"

(***************************************************************************)
(* Small helpers.                                                          *)
(***************************************************************************)
Min(S) == CHOOSE n \in S : \A m \in S : n <= m

RECURSIVE SortedSeq(_)
SortedSeq(S) == IF S = {} THEN <<>> ELSE <<Min(S)>> \o SortedSeq(S \ {Min(S)})

(***************************************************************************)
(* BitSet32 (header): a set of bit numbers.                                *)
(***************************************************************************)
firstMarkedBit(bits) == Min(bits)
markBit(bits, n) == bits \cup {n}
clearBit(bits, n) == bits \ {n}

(***************************************************************************)
(* TouchData (header): pointerCount, pointers[], idBits, idToIndex[].      *)
(* pointers is kept as a sequence of pointerCount records, slot i of the   *)
(* array being pointers[i + 1]; slots past pointerCount and idToIndex      *)
(* entries of ids outside idBits are never read and are kept zero.         *)
(***************************************************************************)
NoId == -1

TouchDataClear ==
    [pointerCount |-> 0, pointers |-> <<>>, idBits |-> {},
     idToIndex |-> [i \in 0..MAX_POINTER_ID |-> 0]]

PointerAt(touch, index) == touch.pointers[index + 1]

(***************************************************************************)
(* Accumulators (header).  An accumulator keeps the values that came in    *)
(* since the last sync and a `fields' set saying which ones did.           *)
(***************************************************************************)
MTPointerClear ==
    [fields |-> {}, absMTPositionX |-> 0, absMTPositionY |-> 0,
     absMTTouchMajor |-> 0, absMTWidthMajor |-> 0, absMTTrackingId |-> 0]

MTAccumulatorClear ==
    [pointerCount |-> 0, pointers |-> [i \in 0..MAX_POINTERS |-> MTPointerClear]]

MTIsDirty(acc) == acc.pointerCount # 0 \/ acc.pointers[0].fields # {}

STAccumulatorClear ==
    [fields |-> {}, btnTouch |-> FALSE, absX |-> 0, absY |-> 0,
     absPressure |-> 0, absToolWidth |-> 0]

STIsDirty(acc) == acc.fields # {}

TBAccumulatorClear == [fields |-> {}, btnMouse |-> FALSE, relX |-> 0, relY |-> 0]

TBIsDirty(acc) == acc.fields # {}

REQUIRED_FIELDS ==
    {"ABS_MT_POSITION_X", "ABS_MT_POSITION_Y", "ABS_MT_TOUCH_MAJOR", "ABS_MT_WIDTH_MAJOR"}

(***************************************************************************)
(* Value sets of the raw events the driver can write.                      *)
(***************************************************************************)
XVals == 0..MaxCoord
YVals == {0}
TouchMajorVals == {0, 1}
WidthMajorVals == {0}

(***************************************************************************)
(* The environment.  env is chosen by Init and never changes:              *)
(*   devs      the device ids the event hub can announce                   *)
(*   classes   EventHub::getDeviceClasses, per device id ({} = no input    *)
(*             device, which the reader ignores)                           *)
(*   mode      "frames": a touch driver writes whole reports in protocol   *)
(*             order; "raw": any raw event can follow any other; "burst":  *)
(*             a multi-touch driver reports its first n contacts, n taken  *)
(*             from bursts                                                 *)
(*   contacts  the contacts a multi-touch driver can report                *)
(*   xs, ys, pressures, widths   the values a single-touch driver can       *)
(*             report for ABS_X, ABS_Y, ABS_PRESSURE, ABS_TOOL_WIDTH       *)
(*   partial   whether a single-touch driver can leave fields out of a     *)
(*             report                                                      *)
(*   others    the devices that write key, relative and switch events     *)
(*   abs       the values of an absolute axis that those devices write     *)
(*   relYs     the values of REL_Y in the reports of a trackball           *)
(*   syn       whether those devices close each event with a SYN_REPORT    *)
(*   ids       the tracking ids a multi-touch driver reports               *)
(*   vkDefs    Policy::getVirtualKeyDefinitions, per device                *)
(*   displays  the answers Policy::getDisplayInfo can give when it succeeds*)
(*   dispFail  whether getDisplayInfo can fail                             *)
(*   actions   the action sets the policy's intercept calls can return     *)
(*   keyActions   the action sets interceptKey can return where they are   *)
(*             not those of the other intercept calls ({}: they are)      *)
(*   filter, jumpy   Policy::filterTouchEvents / filterJumpyTouchEvents     *)
(*   queryScanCodes, queryKeyCodes   the codes other threads pass to       *)
(*                   getCurrentScanCodeState and getCurrentKeyCodeState    *)
(*   watch     whether dispatcherSeen is kept                              *)
(***************************************************************************)
DeviceIds == {1, 2}

\* The answers of Policy::interceptKey.
InterceptKeyAnswers == IF env.keyActions = {} THEN env.actions ELSE env.keyActions

\* EventHub::getAbsoluteInfo: every touch axis runs 0..2 (zero is success).
AbsoluteInfo(id, axis) == [status |-> 0, minValue |-> 0, maxValue |-> 2, flat |-> 0, fuzz |-> 0]

\* EventHub::scancodeToKeycode: scan code 102 is HOME (3), 158 is BACK (4),
\* every other scan code has no key code (non-zero status).
ScancodeToKeycode(scanCode) ==
    IF scanCode = 102 THEN [status |-> 0, keyCode |-> 3, flags |-> 0]
    ELSE IF scanCode = 158 THEN [status |-> 0, keyCode |-> 4, flags |-> 0]
    ELSE [status |-> 1, keyCode |-> 0, flags |-> 0]

\* A virtual key definition in display coordinates: the key of the scan code
\* lies at x, one unit wide, over every y the model has.
VirtualKeyAt(scanCode, x) ==
    [scanCode |-> scanCode, centerX |-> x, centerY |-> 0, width |-> 0, height |-> 2]

DisplayFail == [ok |-> FALSE, w |-> 0, h |-> 0, o |-> 0]
DisplayOk(w, h, o) == [ok |-> TRUE, w |-> w, h |-> h, o |-> o]

\* The reader state handed from one function of the reader to the next.
\* trace is the calls made on the collaborators so far, log the same calls
\* together with the updates of the exported state, in the order they happen,
\* each with the device records as they are when it is made.
ReaderState ==
    [devices |-> mDevices, display |-> mDisplay, meta |-> mGlobalMetaState,
     exported |-> mExported, trace |-> <<>>, log |-> <<>>]

Log(R, entry) ==
    [R EXCEPT !.trace = Append(@, entry),
              !.log = Append(@, [call |-> entry, devices |-> R.devices])]

\* C integer division (truncation toward zero).
CDiv(a, b) ==
    IF (a >= 0) = (b > 0) THEN (IF a >= 0 THEN a ELSE -a) \div (IF b > 0 THEN b ELSE -b)
    ELSE -((IF a >= 0 THEN a ELSE -a) \div (IF b > 0 THEN b ELSE -b))

(***************************************************************************)
(* InputDevice (header): class tests and reset().                          *)
(***************************************************************************)
isKeyboard(device) == CLASS_KEYBOARD \in device.classes
isTrackball(device) == CLASS_TRACKBALL \in device.classes
isMultiTouchScreen(device) == CLASS_TOUCHSCREEN_MT \in device.classes
isSingleTouchScreen(device) ==
    CLASS_TOUCHSCREEN \in device.classes /\ CLASS_TOUCHSCREEN_MT \notin device.classes
isTouchScreen(device) ==
    CLASS_TOUCHSCREEN \in device.classes \/ CLASS_TOUCHSCREEN_MT \in device.classes

InvalidAxis == [valid |-> FALSE, minValue |-> 0, maxValue |-> 0, flat |-> 0, fuzz |-> 0, range |-> 0]

VirtualKeyNone == [status |-> STATUS_NONE, keyCode |-> 0, scanCode |-> 0, downTime |-> 0]

\* The record the InputDevice constructor followed by InputDevice::reset() leaves.
InputDeviceReset(id, classes) ==
    [id |-> id, classes |-> classes, ignored |-> FALSE,
     keyboard |-> [metaState |-> {}, downTime |-> 0],
     trackball |-> [accumulator |-> TBAccumulatorClear, down |-> FALSE, downTime |-> 0],
     singleTouchScreen |->
        [accumulator |-> STAccumulatorClear,
         current |-> [down |-> FALSE, x |-> 0, y |-> 0, pressure |-> 0, size |-> 0]],
     multiTouchScreen |-> [accumulator |-> MTAccumulatorClear],
     touchScreen |->
        [parameters |->
            [useBadTouchFilter |-> FALSE, useAveragingTouchFilter |-> FALSE,
             useJumpyTouchFilter |-> FALSE,
             xAxis |-> InvalidAxis, yAxis |-> InvalidAxis,
             pressureAxis |-> InvalidAxis, sizeAxis |-> InvalidAxis],
         precalculated |->
            [xOrigin |-> 0, xScale |-> <<1, 1>>, yOrigin |-> 0, yScale |-> <<1, 1>>,
             pressureOrigin |-> 0, pressureScale |-> <<1, 1>>,
             sizeOrigin |-> 0, sizeScale |-> <<1, 1>>],
         virtualKeys |-> <<>>,
         currentTouch |-> TouchDataClear,
         lastTouch |-> TouchDataClear,
         downTime |-> 0,
         currentVirtualKey |-> VirtualKeyNone]]

(***************************************************************************)
(* Device configuration.  A scale is the pair <<numerator, denominator>>   *)
(* of the float the code computes.                                         *)
(***************************************************************************)
configureAbsoluteAxisInfo(id, axis) ==
    LET a == AbsoluteInfo(id, axis)
        range == a.maxValue - a.minValue
    IN  IF a.status = 0 /\ range # 0
        THEN [valid |-> TRUE, minValue |-> a.minValue, maxValue |-> a.maxValue,
              flat |-> a.flat, fuzz |-> a.fuzz, range |-> range]
        ELSE InvalidAxis

RECURSIVE VirtualKeysFrom(_, _, _, _)
VirtualKeysFrom(defs, i, display, params) ==
    IF i > Len(defs) THEN <<>>
    ELSE
      LET def == defs[i]
          code == ScancodeToKeycode(def.scanCode)
          touchScreenLeft == params.xAxis.minValue
          touchScreenTop == params.yAxis.minValue
          touchScreenWidth == params.xAxis.range
          touchScreenHeight == params.yAxis.range
          halfWidth == CDiv(def.width, 2)
          halfHeight == CDiv(def.height, 2)
          key == [scanCode |-> def.scanCode, keyCode |-> code.keyCode, flags |-> code.flags,
                  hitLeft |-> CDiv((def.centerX - halfWidth) * touchScreenWidth, display.w)
                                + touchScreenLeft,
                  hitRight |-> CDiv((def.centerX + halfWidth) * touchScreenWidth, display.w)
                                + touchScreenLeft,
                  hitTop |-> CDiv((def.centerY - halfHeight) * touchScreenHeight, display.h)
                                + touchScreenTop,
                  hitBottom |-> CDiv((def.centerY + halfHeight) * touchScreenHeight, display.h)
                                + touchScreenTop]
      IN  (IF code.status # 0 THEN <<>> ELSE <<key>>)
            \o VirtualKeysFrom(defs, i + 1, display, params)

configureVirtualKeys(display, device) ==
    [device EXCEPT !.touchScreen.virtualKeys =
        VirtualKeysFrom(env.vkDefs[device.id], 1, display, device.touchScreen.parameters)]

configureDeviceForCurrentDisplaySize(display, device) ==
    IF ~isTouchScreen(device) THEN device
    ELSE
      LET p == device.touchScreen.parameters IN
      IF p.xAxis.valid /\ p.yAxis.valid
      THEN
        IF display.w < 0
        THEN [device EXCEPT !.touchScreen.precalculated.xOrigin = p.xAxis.minValue,
                            !.touchScreen.precalculated.yOrigin = p.yAxis.minValue,
                            !.touchScreen.precalculated.xScale = <<1, 1>>,
                            !.touchScreen.precalculated.yScale = <<1, 1>>]
        ELSE configureVirtualKeys(display,
               [device EXCEPT !.touchScreen.precalculated.xOrigin = p.xAxis.minValue,
                              !.touchScreen.precalculated.yOrigin = p.yAxis.minValue,
                              !.touchScreen.precalculated.xScale = <<display.w, p.xAxis.range>>,
                              !.touchScreen.precalculated.yScale = <<display.h, p.yAxis.range>>])
      ELSE [device EXCEPT !.touchScreen.precalculated.xOrigin = 0,
                          !.touchScreen.precalculated.xScale = <<1, 1>>,
                          !.touchScreen.precalculated.yOrigin = 0,
                          !.touchScreen.precalculated.yScale = <<1, 1>>]

configureDevice(display, device) ==
    LET id == device.id
        mt == isMultiTouchScreen(device)
        d1 == IF isTouchScreen(device)
              THEN [device EXCEPT
                     !.touchScreen.parameters.xAxis =
                        configureAbsoluteAxisInfo(id, IF mt THEN "ABS_MT_POSITION_X" ELSE "ABS_X"),
                     !.touchScreen.parameters.yAxis =
                        configureAbsoluteAxisInfo(id, IF mt THEN "ABS_MT_POSITION_Y" ELSE "ABS_Y"),
                     !.touchScreen.parameters.pressureAxis =
                        configureAbsoluteAxisInfo(id, IF mt THEN "ABS_MT_TOUCH_MAJOR" ELSE "ABS_PRESSURE"),
                     !.touchScreen.parameters.sizeAxis =
                        configureAbsoluteAxisInfo(id, IF mt THEN "ABS_MT_WIDTH_MAJOR" ELSE "ABS_TOOL_WIDTH"),
                     !.touchScreen.parameters.useBadTouchFilter = env.filter,
                     !.touchScreen.parameters.useAveragingTouchFilter = env.filter,
                     !.touchScreen.parameters.useJumpyTouchFilter = env.jumpy]
              ELSE device
        pa == d1.touchScreen.parameters.pressureAxis
        sa == d1.touchScreen.parameters.sizeAxis
        d2 == IF isTouchScreen(device)
              THEN [d1 EXCEPT
                     !.touchScreen.precalculated.pressureOrigin = IF pa.valid THEN pa.minValue ELSE 0,
                     !.touchScreen.precalculated.pressureScale =
                        IF pa.valid THEN <<1, pa.range>> ELSE <<1, 1>>,
                     !.touchScreen.precalculated.sizeOrigin = IF sa.valid THEN sa.minValue ELSE 0,
                     !.touchScreen.precalculated.sizeScale =
                        IF sa.valid THEN <<1, sa.range>> ELSE <<1, 1>>]
              ELSE d1
    IN  configureDeviceForCurrentDisplaySize(display, d2)

(***************************************************************************)
(* Floats.  A float is kept exactly, as a fraction <<n, d>> in lowest      *)
(* terms with d > 0.                                                       *)
(***************************************************************************)
RECURSIVE GCD(_, _)
GCD(a, b) == IF b = 0 THEN a ELSE GCD(b, a % b)

Abs(a) == IF a < 0 THEN -a ELSE a

Frac(n, d) ==
    LET g == GCD(Abs(n), Abs(d))
        sgn == IF d < 0 THEN -1 ELSE 1
    IN  IF n = 0 THEN <<0, 1>> ELSE <<sgn * (n \div g), sgn * (d \div g)>>

FInt(i) == <<i, 1>>
FMul(f, g) == Frac(f[1] * g[1], f[2] * g[2])
FSub(f, g) == Frac(f[1] * g[2] - g[1] * f[2], f[2] * g[2])
FNeg(f) == <<-f[1], f[2]>>
FLeq(f, g) == f[1] * g[2] <= g[1] * f[2]

(***************************************************************************)
(* Global meta state and exported state.                                   *)
(***************************************************************************)
RECURSIVE MetaOr(_, _)
MetaOr(devices, ids) ==
    IF ids = {} THEN {}
    ELSE LET i == Min(ids) IN
         (IF isKeyboard(devices[i]) THEN devices[i].keyboard.metaState ELSE {})
            \cup MetaOr(devices, ids \ {i})

\* A resetGlobalMetaState that leaves the cache as it is.
resetGlobalMetaState_KeepsCache(R) == R

resetGlobalMetaState(R) == [R EXCEPT !.meta = InvalidMeta]

\* globalMetaState() fills the cache when it is invalid and returns it.
globalMetaState(R) ==
    IF R.meta = InvalidMeta
    THEN [R EXCEPT !.meta = MetaOr(R.devices, DOMAIN R.devices)]
    ELSE R

\* The critical section of updateExportedVirtualKeyState: the assignments it
\* makes under mExportedStateLock, in order.
ExportedVirtualKeyUpdate(keyCode, scanCode) ==
    [op |-> "updateExportedVirtualKeyState",
     writes |-> <<[field |-> "virtualKeyCode", value |-> keyCode],
                  [field |-> "virtualScanCode", value |-> scanCode]>>]

\* The critical section of updateExportedInputConfiguration.
ExportedInputConfigurationUpdate(c) ==
    [op |-> "updateExportedInputConfiguration",
     writes |-> <<[field |-> "touchScreen", value |-> c.touchScreen],
                  [field |-> "keyboard", value |-> c.keyboard],
                  [field |-> "navigation", value |-> c.navigation]>>]

\* The loop of updateExportedVirtualKeyState: the codes of the last touch
\* screen, in registry order, whose virtual key is down.
RECURSIVE ExportedVirtualKeyOf(_, _, _)
ExportedVirtualKeyOf(devices, ids, acc) ==
    IF ids = {} THEN acc
    ELSE LET i == Min(ids)
             device == devices[i]
             vk == device.touchScreen.currentVirtualKey
         IN  ExportedVirtualKeyOf(devices, ids \ {i},
                IF isTouchScreen(device) /\ vk.status = STATUS_DOWN
                THEN [keyCode |-> vk.keyCode, scanCode |-> vk.scanCode]
                ELSE acc)

\* An updateExportedVirtualKeyState whose locals start from the exported codes.
updateExportedVirtualKeyState_KeepsOld(R) ==
    LET k == ExportedVirtualKeyOf(R.devices, DOMAIN R.devices,
                                  [keyCode |-> R.exported.virtualKeyCode,
                                   scanCode |-> R.exported.virtualScanCode])
    IN  [R EXCEPT !.exported.virtualKeyCode = k.keyCode,
                  !.exported.virtualScanCode = k.scanCode,
                  !.log = Append(@, [call |-> ExportedVirtualKeyUpdate(k.keyCode, k.scanCode),
                                     devices |-> R.devices])]

updateExportedVirtualKeyState(R) ==
    LET k == ExportedVirtualKeyOf(R.devices, DOMAIN R.devices,
                                  [keyCode |-> -1, scanCode |-> -1])
    IN  [R EXCEPT !.exported.virtualKeyCode = k.keyCode,
                  !.exported.virtualScanCode = k.scanCode,
                  !.log = Append(@, [call |-> ExportedVirtualKeyUpdate(k.keyCode, k.scanCode),
                                     devices |-> R.devices])]

RECURSIVE InputConfigurationOf(_, _, _)
InputConfigurationOf(devices, ids, acc) ==
    IF ids = {} THEN acc
    ELSE LET i == Min(ids)
             classes == devices[i].classes
             a1 == IF CLASS_TOUCHSCREEN \in classes
                   THEN [acc EXCEPT !.touchScreen = "TOUCHSCREEN_FINGER"] ELSE acc
             a2 == IF CLASS_ALPHAKEY \in classes
                   THEN [a1 EXCEPT !.keyboard = "KEYBOARD_QWERTY"] ELSE a1
             a3 == IF CLASS_TRACKBALL \in classes
                   THEN [a2 EXCEPT !.navigation = "NAVIGATION_TRACKBALL"]
                   ELSE IF CLASS_DPAD \in classes
                        THEN [a2 EXCEPT !.navigation = "NAVIGATION_DPAD"] ELSE a2
         IN  InputConfigurationOf(devices, ids \ {i}, a3)

NoInputConfiguration ==
    [touchScreen |-> "TOUCHSCREEN_NOTOUCH", keyboard |-> "KEYBOARD_NOKEYS",
     navigation |-> "NAVIGATION_NONAV"]

\* An updateExportedInputConfiguration whose locals start from the exported values.
updateExportedInputConfiguration_KeepsOld(R) ==
    LET c == InputConfigurationOf(R.devices, DOMAIN R.devices, R.exported.inputConfiguration)
    IN  [R EXCEPT !.exported.inputConfiguration = c,
                  !.log = Append(@, [call |-> ExportedInputConfigurationUpdate(c),
                                     devices |-> R.devices])]

updateExportedInputConfiguration(R) ==
    LET c == InputConfigurationOf(R.devices, DOMAIN R.devices, NoInputConfiguration)
    IN  [R EXCEPT !.exported.inputConfiguration = c,
                  !.log = Append(@, [call |-> ExportedInputConfigurationUpdate(c),
                                     devices |-> R.devices])]

onConfigurationChanged(R, when) ==
    Log(updateExportedInputConfiguration(
            updateExportedVirtualKeyState(resetGlobalMetaState(R))),
        [op |-> "notifyConfigurationChanged", when |-> when])

(***************************************************************************)
(* Policy actions and display properties.                                  *)
(***************************************************************************)
\* [R, policyFlags, dispatch]: the reader state, the flags and the result.
applyStandardInputDispatchPolicyActions(R, when, policyActions, policyFlags) ==
    [R |-> IF "APP_SWITCH_COMING" \in policyActions
           THEN Log(R, [op |-> "notifyAppSwitchComing", when |-> when]) ELSE R,
     policyFlags |-> policyFlags \cup (policyActions \cap {"WOKE_HERE", "BRIGHT_HERE"}),
     dispatch |-> "DISPATCH" \in policyActions]

UnknownDisplay == [w |-> -1, h |-> -1, o |-> -1]

resetDisplayProperties(R) == [R EXCEPT !.display = UnknownDisplay]

\* A refreshDisplayProperties that keeps the display properties it has when
\* the policy has none to give.
refreshDisplayPropertiesWith_KeepsDisplay(R, answer) ==
    IF answer.ok
    THEN LET R1 == IF answer.w # R.display.w \/ answer.h # R.display.h
                   THEN LET disp == [R.display EXCEPT !.w = answer.w, !.h = answer.h]
                        IN  [R EXCEPT !.display = disp,
                                      !.devices = [i \in DOMAIN R.devices |->
                                          configureDeviceForCurrentDisplaySize(disp, R.devices[i])]]
                   ELSE R
         IN  [R |-> Log([R1 EXCEPT !.display.o = answer.o], [op |-> "getDisplayInfo", ok |-> TRUE]),
              ok |-> TRUE]
    ELSE [R |-> Log(R, [op |-> "getDisplayInfo", ok |-> FALSE]), ok |-> FALSE]

\* refreshDisplayProperties for one answer of Policy::getDisplayInfo.
refreshDisplayPropertiesWith(R, answer) ==
    IF answer.ok
    THEN LET R1 == IF answer.w # R.display.w \/ answer.h # R.display.h
                   THEN LET disp == [R.display EXCEPT !.w = answer.w, !.h = answer.h]
                        IN  [R EXCEPT !.display = disp,
                                      !.devices = [i \in DOMAIN R.devices |->
                                          configureDeviceForCurrentDisplaySize(disp, R.devices[i])]]
                   ELSE R
         IN  [R |-> Log([R1 EXCEPT !.display.o = answer.o], [op |-> "getDisplayInfo", ok |-> TRUE]),
              ok |-> TRUE]
    ELSE [R |-> Log(resetDisplayProperties(R), [op |-> "getDisplayInfo", ok |-> FALSE]),
          ok |-> FALSE]

DisplayAnswers == env.displays \cup (IF env.dispFail THEN {DisplayFail} ELSE {})

\* The outcomes of refreshDisplayProperties, one per answer of the policy.
refreshDisplayProperties(R) == {refreshDisplayPropertiesWith(R, a) : a \in DisplayAnswers}

(***************************************************************************)
(* Touch dispatch.                                                         *)
(***************************************************************************)
\* A dispatchTouch that does not turn the coordinates.
PointerCoordsOf_Unrotated(display, precalculated, pointer) ==
    [x |-> FMul(FInt(pointer.x - precalculated.xOrigin),
                Frac(precalculated.xScale[1], precalculated.xScale[2])),
     y |-> FMul(FInt(pointer.y - precalculated.yOrigin),
                Frac(precalculated.yScale[1], precalculated.yScale[2])),
     pressure |-> FMul(FInt(pointer.pressure - precalculated.pressureOrigin),
                       Frac(precalculated.pressureScale[1], precalculated.pressureScale[2])),
     size |-> FMul(FInt(pointer.size - precalculated.sizeOrigin),
                   Frac(precalculated.sizeScale[1], precalculated.sizeScale[2]))]

\* The coordinates dispatchTouch computes for one pointer of a TouchData.
PointerCoordsOf(display, precalculated, pointer) ==
    LET x0 == FMul(FInt(pointer.x - precalculated.xOrigin),
                   Frac(precalculated.xScale[1], precalculated.xScale[2]))
        y0 == FMul(FInt(pointer.y - precalculated.yOrigin),
                   Frac(precalculated.yScale[1], precalculated.yScale[2]))
        pressure == FMul(FInt(pointer.pressure - precalculated.pressureOrigin),
                         Frac(precalculated.pressureScale[1], precalculated.pressureScale[2]))
        size == FMul(FInt(pointer.size - precalculated.sizeOrigin),
                     Frac(precalculated.sizeScale[1], precalculated.sizeScale[2]))
        x == CASE display.o = ROTATION_90 -> y0
               [] display.o = ROTATION_180 -> FSub(FInt(display.w), x0)
               [] display.o = ROTATION_270 -> FSub(FInt(display.h), y0)
               [] OTHER -> x0
        y == CASE display.o = ROTATION_90 -> FSub(FInt(display.w), x0)
               [] display.o = ROTATION_180 -> FSub(FInt(display.h), y0)
               [] display.o = ROTATION_270 -> x0
               [] OTHER -> y0
    IN  [x |-> x, y |-> y, pressure |-> pressure, size |-> size]

\* The slot of `touch' that idToIndex names for `id'.
PointerOfId(touch, id) ==
    LET index == touch.idToIndex[id] IN
    IF index < Len(touch.pointers) THEN PointerAt(touch, index)
    ELSE [id |-> NoId, x |-> 0, y |-> 0, pressure |-> 0, size |-> 0]

EdgeFlagsOf(display, motionEventAction, pointerCoords) ==
    LET orientedWidth == IF display.o \in {ROTATION_90, ROTATION_270} THEN display.h ELSE display.w
        orientedHeight == IF display.o \in {ROTATION_90, ROTATION_270} THEN display.w ELSE display.h
    IN  IF motionEventAction = "DOWN" /\ Len(pointerCoords) > 0
        THEN (IF FLeq(pointerCoords[1].x, FInt(0)) THEN {"EDGE_LEFT"}
              ELSE IF FLeq(FInt(orientedWidth), pointerCoords[1].x) THEN {"EDGE_RIGHT"} ELSE {})
             \cup
             (IF FLeq(pointerCoords[1].y, FInt(0)) THEN {"EDGE_TOP"}
              ELSE IF FLeq(FInt(orientedHeight), pointerCoords[1].y) THEN {"EDGE_BOTTOM"} ELSE {})
        ELSE {}

dispatchTouch(R, when, d, policyFlags, touch, idBits, motionEventAction, actionId) ==
    LET device == R.devices[d]
        pointerIds == SortedSeq(idBits)
        pointerCoords == [i \in 1..Len(pointerIds) |->
            PointerCoordsOf(R.display, device.touchScreen.precalculated,
                            PointerOfId(touch, pointerIds[i]))]
        R1 == globalMetaState(R)
    IN  Log(R1, [op |-> "notifyMotion", when |-> when, deviceId |-> device.id,
                 nature |-> "TOUCH", policyFlags |-> policyFlags,
                 action |-> motionEventAction, actionId |-> actionId,
                 metaState |-> R1.meta,
                 edgeFlags |-> EdgeFlagsOf(R.display, motionEventAction, pointerCoords),
                 pointerIds |-> pointerIds, pointerCoords |-> pointerCoords,
                 xPrecision |-> 0, yPrecision |-> 0,
                 downTime |-> device.touchScreen.downTime])

\* A dispatchTouches that never tells the last pointer going up from the others.
upMotionEventAction_NeverUp(activeIdBits, upId) == [action |-> "POINTER_UP", id |-> upId]

\* The action of the event for a pointer going up, from the active set left.
upMotionEventAction(activeIdBits, upId) ==
    IF activeIdBits = {} THEN [action |-> "UP", id |-> 0]
    ELSE [action |-> "POINTER_UP", id |-> upId]

\* A dispatchTouches that begins a gesture with every pointer going down.
downMotionEventAction_AlwaysDown(oldActiveIdBits, downId) == [action |-> "DOWN", id |-> 0]

\* The action of the event for a pointer going down, from the active set before.
downMotionEventAction(oldActiveIdBits, downId) ==
    IF oldActiveIdBits = {} THEN [action |-> "DOWN", id |-> 0]
    ELSE [action |-> "POINTER_DOWN", id |-> downId]

\* The first while loop of dispatchTouches; [R, activeIdBits].
RECURSIVE dispatchUps(_, _, _, _, _, _)
dispatchUps(R, when, d, policyFlags, upIdBits, activeIdBits) ==
    IF upIdBits = {} THEN [R |-> R, activeIdBits |-> activeIdBits]
    ELSE LET upId == firstMarkedBit(upIdBits)
             oldActiveIdBits == activeIdBits
             active == clearBit(activeIdBits, upId)
             a == upMotionEventAction(active, upId)
         IN  dispatchUps(
                dispatchTouch(R, when, d, policyFlags, R.devices[d].touchScreen.lastTouch,
                              oldActiveIdBits, a.action, a.id),
                when, d, policyFlags, clearBit(upIdBits, upId), active)

\* The second while loop of dispatchTouches.
RECURSIVE dispatchDowns(_, _, _, _, _, _)
dispatchDowns(R, when, d, policyFlags, downIdBits, activeIdBits) ==
    IF downIdBits = {} THEN R
    ELSE LET downId == firstMarkedBit(downIdBits)
             oldActiveIdBits == activeIdBits
             active == markBit(activeIdBits, downId)
             a == downMotionEventAction(oldActiveIdBits, downId)
             R1 == IF a.action = "DOWN"
                   THEN [R EXCEPT !.devices[d].touchScreen.downTime = when] ELSE R
         IN  dispatchDowns(
                dispatchTouch(R1, when, d, policyFlags, R1.devices[d].touchScreen.currentTouch,
                              active, a.action, a.id),
                when, d, policyFlags, clearBit(downIdBits, downId), active)

\* A dispatchTouches with its two loops the other way round.
dispatchTouches_DownsFirst(R, when, d, policyFlags) ==
    LET ts == R.devices[d].touchScreen
        currentIdBits == ts.currentTouch.idBits
        lastIdBits == ts.lastTouch.idBits
    IN  IF ts.currentTouch.pointerCount = 0 /\ ts.lastTouch.pointerCount = 0 THEN R
        ELSE IF currentIdBits = lastIdBits
        THEN dispatchTouch(R, when, d, policyFlags, ts.currentTouch, currentIdBits, "MOVE", 0)
        ELSE LET downs == dispatchDowns(R, when, d, policyFlags,
                                        currentIdBits \ lastIdBits, lastIdBits)
             IN  dispatchUps(downs, when, d, policyFlags,
                             lastIdBits \ currentIdBits,
                             lastIdBits \cup currentIdBits).R

\* A dispatchTouches whose move event is read from the last frame.
dispatchTouches_MoveFromLast(R, when, d, policyFlags) ==
    LET ts == R.devices[d].touchScreen
        currentIdBits == ts.currentTouch.idBits
        lastIdBits == ts.lastTouch.idBits
    IN  IF ts.currentTouch.pointerCount = 0 /\ ts.lastTouch.pointerCount = 0 THEN R
        ELSE IF currentIdBits = lastIdBits
        THEN dispatchTouch(R, when, d, policyFlags, ts.lastTouch, currentIdBits, "MOVE", 0)
        ELSE LET ups == dispatchUps(R, when, d, policyFlags,
                                    lastIdBits \ currentIdBits, lastIdBits)
             IN  dispatchDowns(ups.R, when, d, policyFlags,
                               currentIdBits \ lastIdBits, ups.activeIdBits)

dispatchTouches(R, when, d, policyFlags) ==
    LET ts == R.devices[d].touchScreen
        currentIdBits == ts.currentTouch.idBits
        lastIdBits == ts.lastTouch.idBits
    IN  IF ts.currentTouch.pointerCount = 0 /\ ts.lastTouch.pointerCount = 0 THEN R
        ELSE IF currentIdBits = lastIdBits
        THEN dispatchTouch(R, when, d, policyFlags, ts.currentTouch, currentIdBits, "MOVE", 0)
        ELSE LET ups == dispatchUps(R, when, d, policyFlags,
                                    lastIdBits \ currentIdBits, lastIdBits)
             IN  dispatchDowns(ups.R, when, d, policyFlags,
                               currentIdBits \ lastIdBits, ups.activeIdBits)

(***************************************************************************)
(* Virtual keys.                                                           *)
(***************************************************************************)
\* TouchScreenState::findVirtualKeyHit (header): the first virtual key whose
\* hit rectangle holds the first pointer of currentTouch; <<>> for NULL.
RECURSIVE FirstKeyHit(_, _, _, _)
FirstKeyHit(keys, i, x, y) ==
    IF i > Len(keys) THEN <<>>
    ELSE IF /\ x >= keys[i].hitLeft /\ x <= keys[i].hitRight
            /\ y >= keys[i].hitTop /\ y <= keys[i].hitBottom
         THEN <<keys[i]>>
         ELSE FirstKeyHit(keys, i + 1, x, y)

findVirtualKeyHit(ts) ==
    IF ts.currentTouch.pointerCount = 0 THEN <<>>
    ELSE FirstKeyHit(ts.virtualKeys, 1,
                     ts.currentTouch.pointers[1].x, ts.currentTouch.pointers[1].y)

\* A dispatchVirtualKey that notifies the dispatcher whatever the policy says.
dispatchVirtualKey_Unfiltered(R, when, d, policyFlags, keyEventAction, keyEventFlags) ==
    LET R1 == updateExportedVirtualKeyState(R)
        device == R1.devices[d]
        vk == device.touchScreen.currentVirtualKey
        R2 == globalMetaState(R1)
        R3 == IF keyEventAction = "KEY_DOWN"
              THEN Log(R2, [op |-> "virtualKeyDownFeedback"]) ELSE R2
    IN  { LET R4 == Log(R3, [op |-> "interceptKey", when |-> when, deviceId |-> device.id,
                             down |-> (keyEventAction = "KEY_DOWN"), keyCode |-> vk.keyCode,
                             scanCode |-> vk.scanCode, policyFlags |-> policyFlags,
                             actions |-> policyActions])
              ap == applyStandardInputDispatchPolicyActions(R4, when, policyActions, policyFlags)
          IN  Log(ap.R, [op |-> "notifyKey", when |-> when, deviceId |-> device.id,
                         nature |-> "KEY", policyFlags |-> ap.policyFlags,
                         action |-> keyEventAction, flags |-> keyEventFlags,
                         keyCode |-> vk.keyCode, scanCode |-> vk.scanCode,
                         metaState |-> R2.meta, downTime |-> vk.downTime])
          : policyActions \in InterceptKeyAnswers }

\* The outcomes of dispatchVirtualKey, one per answer of Policy::interceptKey.
dispatchVirtualKey(R, when, d, policyFlags, keyEventAction, keyEventFlags) ==
    LET R1 == updateExportedVirtualKeyState(R)
        device == R1.devices[d]
        keyCode == device.touchScreen.currentVirtualKey.keyCode
        scanCode == device.touchScreen.currentVirtualKey.scanCode
        downTime == device.touchScreen.currentVirtualKey.downTime
        R2 == globalMetaState(R1)
        metaState == R2.meta
        R3 == IF keyEventAction = "KEY_DOWN"
              THEN Log(R2, [op |-> "virtualKeyDownFeedback"]) ELSE R2
    IN  { LET R4 == Log(R3, [op |-> "interceptKey", when |-> when, deviceId |-> device.id,
                             down |-> (keyEventAction = "KEY_DOWN"), keyCode |-> keyCode,
                             scanCode |-> scanCode, policyFlags |-> policyFlags,
                             actions |-> policyActions])
              ap == applyStandardInputDispatchPolicyActions(R4, when, policyActions, policyFlags)
          IN  IF ap.dispatch
              THEN Log(ap.R, [op |-> "notifyKey", when |-> when, deviceId |-> device.id,
                              nature |-> "KEY", policyFlags |-> ap.policyFlags,
                              action |-> keyEventAction, flags |-> keyEventFlags,
                              keyCode |-> keyCode, scanCode |-> scanCode,
                              metaState |-> metaState, downTime |-> downTime])
              ELSE ap.R
          : policyActions \in InterceptKeyAnswers }

SetStatus(R, d, status) ==
    [R EXCEPT !.devices[d].touchScreen.currentVirtualKey.status = status]

\* A STATUS_CANCELED case that ends with the first frame it sees.
consumeCanceled_Ends(R, when, d, policyFlags) ==
    {[R |-> SetStatus(R, d, STATUS_UP), consumed |-> TRUE]}

\* A STATUS_CANCELED case that never ends.
consumeCanceled_Stuck(R, when, d, policyFlags) == {[R |-> R, consumed |-> TRUE]}

\* consumeVirtualKeyTouches, case STATUS_CANCELED: the outcomes [R, consumed].
consumeCanceled(R, when, d, policyFlags) ==
    LET ts == R.devices[d].touchScreen
    IN  {[R |-> IF ts.currentTouch.pointerCount = 0 THEN SetStatus(R, d, STATUS_UP) ELSE R,
          consumed |-> TRUE]}

\* A STATUS_DOWN case that takes a hit on any virtual key for the active key.
consumeDown_AnyKey(R, when, d, policyFlags) ==
    LET ts == R.devices[d].touchScreen
        hit == findVirtualKeyHit(ts)
    IN  IF ts.currentTouch.pointerCount = 0
        THEN {[R |-> r, consumed |-> TRUE] :
                 r \in dispatchVirtualKey(SetStatus(R, d, STATUS_UP), when, d, policyFlags,
                         "KEY_UP", {"FROM_SYSTEM", "VIRTUAL_HARD_KEY"})}
        ELSE IF ts.currentTouch.pointerCount = 1 /\ hit # <<>>
        THEN {[R |-> R, consumed |-> TRUE]}
        ELSE {[R |-> r, consumed |-> TRUE] :
                 r \in dispatchVirtualKey(SetStatus(R, d, STATUS_CANCELED), when, d,
                         policyFlags, "KEY_UP",
                         {"FROM_SYSTEM", "VIRTUAL_HARD_KEY", "CANCELED"})}

\* consumeVirtualKeyTouches, case STATUS_DOWN.
consumeDown(R, when, d, policyFlags) ==
    LET ts == R.devices[d].touchScreen
        hit == findVirtualKeyHit(ts)
    IN  IF ts.currentTouch.pointerCount = 0
        THEN {[R |-> r, consumed |-> TRUE] :
                 r \in dispatchVirtualKey(SetStatus(R, d, STATUS_UP), when, d, policyFlags,
                         "KEY_UP", {"FROM_SYSTEM", "VIRTUAL_HARD_KEY"})}
        ELSE IF /\ ts.currentTouch.pointerCount = 1
                /\ hit # <<>>
                /\ hit[1].keyCode = ts.currentVirtualKey.keyCode
        THEN {[R |-> R, consumed |-> TRUE]}
        ELSE {[R |-> r, consumed |-> TRUE] :
                 r \in dispatchVirtualKey(SetStatus(R, d, STATUS_CANCELED), when, d,
                         policyFlags, "KEY_UP",
                         {"FROM_SYSTEM", "VIRTUAL_HARD_KEY", "CANCELED"})}

\* A default case that does not look at the last frame.
consumeNoneOrUp_AnyLast(R, when, d, policyFlags) ==
    LET ts == R.devices[d].touchScreen
        hit == findVirtualKeyHit(ts)
    IN  IF ts.currentTouch.pointerCount = 1 /\ hit # <<>>
        THEN LET R1 == [R EXCEPT !.devices[d].touchScreen.currentVirtualKey =
                            [status |-> STATUS_DOWN, downTime |-> when,
                             keyCode |-> hit[1].keyCode, scanCode |-> hit[1].scanCode]]
             IN  {[R |-> r, consumed |-> TRUE] :
                     r \in dispatchVirtualKey(R1, when, d, policyFlags, "KEY_DOWN",
                             {"FROM_SYSTEM", "VIRTUAL_HARD_KEY"})}
        ELSE {[R |-> R, consumed |-> FALSE]}

\* consumeVirtualKeyTouches, default case (STATUS_NONE, STATUS_UP).
consumeNoneOrUp(R, when, d, policyFlags) ==
    LET ts == R.devices[d].touchScreen
        hit == findVirtualKeyHit(ts)
    IN  IF /\ ts.currentTouch.pointerCount = 1
           /\ ts.lastTouch.pointerCount = 0
           /\ hit # <<>>
        THEN LET R1 == [R EXCEPT !.devices[d].touchScreen.currentVirtualKey =
                            [status |-> STATUS_DOWN, downTime |-> when,
                             keyCode |-> hit[1].keyCode, scanCode |-> hit[1].scanCode]]
             IN  {[R |-> r, consumed |-> TRUE] :
                     r \in dispatchVirtualKey(R1, when, d, policyFlags, "KEY_DOWN",
                             {"FROM_SYSTEM", "VIRTUAL_HARD_KEY"})}
        ELSE {[R |-> R, consumed |-> FALSE]}

\* A consumeVirtualKeyTouches that looks for a key hit whatever the status.
consumeVirtualKeyTouches_AnyStatus(R, when, d, policyFlags) ==
    consumeNoneOrUp(R, when, d, policyFlags)

\* The outcomes [R, consumed] of consumeVirtualKeyTouches.
consumeVirtualKeyTouches(R, when, d, policyFlags) ==
    LET status == R.devices[d].touchScreen.currentVirtualKey.status
    IN  CASE status = STATUS_CANCELED -> consumeCanceled(R, when, d, policyFlags)
          [] status = STATUS_DOWN -> consumeDown(R, when, d, policyFlags)
          [] OTHER -> consumeNoneOrUp(R, when, d, policyFlags)

(***************************************************************************)
(* Touch preprocessing (header: TouchScreenState::applyBadTouchFilter,     *)
(* applyJumpyTouchFilter, calculatePointerIds, applyAveragingTouchFilter). *)
(* The filters are known by their contract only: the bad-touch and the     *)
(* jumpy-touch filter say whether the pointer ids have to be worked out    *)
(* again, pointer-id calculation gives every pointer of the frame an id of *)
(* its own, keeping as many ids of the last frame as there are pointers to *)
(* take them and drawing the others lowest first from the ids the last     *)
(* frame did not use, and the averaging filter moves x and y.              *)
(***************************************************************************)
applyBadTouchFilter(ts) == BOOLEAN

applyJumpyTouchFilter(ts) == BOOLEAN

Injective(f) == \A i, j \in DOMAIN f : f[i] = f[j] => i = j

RECURSIVE LowestOutside(_, _)
LowestOutside(used, k) ==
    IF k = 0 THEN {}
    ELSE LET free == (0..MAX_POINTER_ID) \ used IN
         IF free = {} THEN {} ELSE {Min(free)} \cup LowestOutside(used \cup {Min(free)}, k - 1)

WithPointerIds(touch, f) ==
    [touch EXCEPT
        !.pointers = [i \in 1..Len(touch.pointers) |-> [touch.pointers[i] EXCEPT !.id = f[i]]],
        !.idBits = {f[i] : i \in 1..Len(touch.pointers)},
        !.idToIndex = [id \in 0..MAX_POINTER_ID |->
            IF \E i \in 1..Len(touch.pointers) : f[i] = id
            THEN (CHOOSE i \in 1..Len(touch.pointers) : f[i] = id) - 1 ELSE 0]]

calculatePointerIds(ts) ==
    LET n == ts.currentTouch.pointerCount
        lastIdBits == ts.lastTouch.idBits
        kept == IF n < Cardinality(lastIdBits) THEN n ELSE Cardinality(lastIdBits)
        fresh == LowestOutside(lastIdBits, n - kept)
    IN  { [ts EXCEPT !.currentTouch = WithPointerIds(ts.currentTouch, f)] :
            f \in { g \in [1..n -> 0..MAX_POINTER_ID] :
                      /\ Injective(g)
                      /\ Cardinality({g[i] : i \in 1..n} \cap lastIdBits) = kept
                      /\ {g[i] : i \in 1..n} \ lastIdBits = fresh } }

applyAveragingTouchFilter(ts) ==
    { [ts EXCEPT !.currentTouch.pointers =
          [i \in 1..Len(ts.currentTouch.pointers) |->
              [ts.currentTouch.pointers[i] EXCEPT !.x = g[i]]]] :
        g \in [1..Len(ts.currentTouch.pointers) -> XVals] }

(***************************************************************************)
(* onTouchScreenChanged: the outcomes, one per answer of the policy and    *)
(* of the filters.                                                         *)
(***************************************************************************)
\* The part of onTouchScreenChanged after the policy let the frame through
\* and the frame was preprocessed: ts is the touch screen state with the
\* preprocessed currentTouch, savedTouch the frame to keep as lastTouch.
processTouches_AlwaysDispatch(R, when, d, policyFlags, ts, savedTouch) ==
    LET R1 == [R EXCEPT !.devices[d].touchScreen = ts]
    IN  { LET R2 == Log(c.R, [op |-> "consumeVirtualKeyTouches", consumed |-> c.consumed])
              R3 == dispatchTouches(R2, when, d, policyFlags)
          IN  [R3 EXCEPT !.devices[d].touchScreen.lastTouch = savedTouch]
          : c \in consumeVirtualKeyTouches(R1, when, d, policyFlags) }

processTouches(R, when, d, policyFlags, ts, savedTouch) ==
    LET R1 == [R EXCEPT !.devices[d].touchScreen = ts]
    IN  { LET R2 == Log(c.R, [op |-> "consumeVirtualKeyTouches", consumed |-> c.consumed])
              R3 == IF ~c.consumed THEN dispatchTouches(R2, when, d, policyFlags) ELSE R2
          IN  [R3 EXCEPT !.devices[d].touchScreen.lastTouch = savedTouch]
          : c \in consumeVirtualKeyTouches(R1, when, d, policyFlags) }

\* The frames the preprocessing can make of currentTouch: [ts, savedTouch].
preprocessTouches(ts0, havePointerIds0) ==
    LET bad == IF ts0.parameters.useBadTouchFilter THEN applyBadTouchFilter(ts0) ELSE {FALSE}
        jump == IF ts0.parameters.useJumpyTouchFilter THEN applyJumpyTouchFilter(ts0) ELSE {FALSE}
        withIds == UNION { IF havePointerIds0 /\ ~b /\ ~j THEN {ts0} ELSE calculatePointerIds(ts0)
                           : b \in bad, j \in jump }
    IN  UNION { IF ts.parameters.useAveragingTouchFilter
                THEN {[ts |-> a, savedTouch |-> ts.currentTouch] : a \in applyAveragingTouchFilter(ts)}
                ELSE {[ts |-> ts, savedTouch |-> ts.currentTouch]}
                : ts \in withIds }

\* An onTouchScreenChanged that keeps lastTouch when the policy drops the frame.
onTouchScreenChanged_KeepsLast(R, when, d, havePointerIds) ==
    UNION {
      LET R0 == Log(R, [op |-> "onTouchScreenChanged", deviceId |-> d,
                        havePointerIds |-> havePointerIds,
                        currentTouch |-> R.devices[d].touchScreen.currentTouch])
          R1 == Log(R0, [op |-> "interceptTouch", when |-> when, actions |-> policyActions])
          ap == applyStandardInputDispatchPolicyActions(R1, when, policyActions, {})
      IN  IF ~ap.dispatch
          THEN {ap.R}
          ELSE UNION { processTouches(ap.R, when, d, ap.policyFlags, p.ts, p.savedTouch)
                       : p \in preprocessTouches(ap.R.devices[d].touchScreen, havePointerIds) }
      : policyActions \in env.actions }

onTouchScreenChanged(R, when, d, havePointerIds) ==
    UNION {
      LET R0 == Log(R, [op |-> "onTouchScreenChanged", deviceId |-> d,
                        havePointerIds |-> havePointerIds,
                        currentTouch |-> R.devices[d].touchScreen.currentTouch])
          R1 == Log(R0, [op |-> "interceptTouch", when |-> when, actions |-> policyActions])
          ap == applyStandardInputDispatchPolicyActions(R1, when, policyActions, {})
      IN  IF ~ap.dispatch
          THEN {[ap.R EXCEPT !.devices[d].touchScreen.lastTouch = TouchDataClear]}
          ELSE UNION { processTouches(ap.R, when, d, ap.policyFlags, p.ts, p.savedTouch)
                       : p \in preprocessTouches(ap.R.devices[d].touchScreen, havePointerIds) }
      : policyActions \in env.actions }

(***************************************************************************)
(* Touch assembly.                                                         *)
(***************************************************************************)
DEBUG_POINTERS == 0

\* What the assembler can read from an accumulator slot: a value written
\* since the slot was cleared where the field is set, and otherwise whatever
\* the slot held before (Pointer::clear, header, resets the fields only).
SlotReads(slot) ==
    { [slot EXCEPT !.absMTPositionX = x, !.absMTPositionY = y,
                   !.absMTTouchMajor = t, !.absMTWidthMajor = w] :
        x \in IF "ABS_MT_POSITION_X" \in slot.fields THEN {slot.absMTPositionX} ELSE XVals,
        y \in IF "ABS_MT_POSITION_Y" \in slot.fields THEN {slot.absMTPositionY} ELSE YVals,
        t \in IF "ABS_MT_TOUCH_MAJOR" \in slot.fields THEN {slot.absMTTouchMajor} ELSE TouchMajorVals,
        w \in IF "ABS_MT_WIDTH_MAJOR" \in slot.fields THEN {slot.absMTWidthMajor} ELSE WidthMajorVals }

\* An assembly turn that compares the tracking id as the signed number it is.
assemblePointer_SignedId(in, out, havePointerIds) ==
    IF in.absMTTouchMajor <= 0
    THEN [out |-> out, havePointerIds |-> havePointerIds]
    ELSE
      LET outCount == Len(out.pointers)
          pointer == [id |-> NoId, x |-> in.absMTPositionX, y |-> in.absMTPositionY,
                      pressure |-> in.absMTTouchMajor, size |-> in.absMTWidthMajor]
          id == in.absMTTrackingId
          adopt == /\ havePointerIds
                   /\ "ABS_MT_TRACKING_ID" \in in.fields
                   /\ id <= MAX_POINTER_ID
      IN  IF adopt
          THEN [out |-> [out EXCEPT !.pointers = Append(@, [pointer EXCEPT !.id = id]),
                                    !.idToIndex = [i \in DOMAIN @ \cup {id} |->
                                                      IF i = id THEN outCount ELSE @[i]],
                                    !.idBits = markBit(@, id)],
                havePointerIds |-> TRUE]
          ELSE [out |-> [out EXCEPT !.pointers = Append(@, pointer)],
                havePointerIds |-> FALSE]

\* One turn of the assembly loop for the slot `in': [out, havePointerIds].
assemblePointer(in, out, havePointerIds) ==
    IF DEBUG_POINTERS # 0 /\ ~(REQUIRED_FIELDS \subseteq in.fields)
    THEN [out |-> out, havePointerIds |-> havePointerIds]
    ELSE IF in.absMTTouchMajor <= 0
    THEN [out |-> out, havePointerIds |-> havePointerIds]
    ELSE
      LET outCount == Len(out.pointers)
          pointer == [id |-> NoId, x |-> in.absMTPositionX, y |-> in.absMTPositionY,
                      pressure |-> in.absMTTouchMajor, size |-> in.absMTWidthMajor]
          id == in.absMTTrackingId
          adopt == /\ havePointerIds
                   /\ "ABS_MT_TRACKING_ID" \in in.fields
                   /\ id >= 0 /\ id <= MAX_POINTER_ID     \* uint32_t(id) <= MAX_POINTER_ID
      IN  IF adopt
          THEN [out |-> [out EXCEPT !.pointers = Append(@, [pointer EXCEPT !.id = id]),
                                    !.idToIndex[id] = outCount,
                                    !.idBits = markBit(@, id)],
                havePointerIds |-> TRUE]
          ELSE [out |-> [out EXCEPT !.pointers = Append(@, pointer)],
                havePointerIds |-> FALSE]

\* The assembly loop from slot inIndex on: the frames [out, havePointerIds].
RECURSIVE assembleFrom(_, _, _, _)
assembleFrom(acc, inIndex, out, havePointerIds) ==
    IF inIndex >= acc.pointerCount
    THEN {[out |-> [out EXCEPT !.pointerCount = Len(out.pointers)],
           havePointerIds |-> havePointerIds]}
    ELSE UNION { LET r == assemblePointer(in, out, havePointerIds)
                 IN  assembleFrom(acc, inIndex + 1, r.out, r.havePointerIds)
                 : in \in SlotReads(acc.pointers[inIndex]) }

onMultiTouchScreenStateChanged(R, when, d) ==
    UNION {
      IF ~rd.ok THEN {rd.R}
      ELSE UNION {
             onTouchScreenChanged(
                [rd.R EXCEPT !.devices[d].touchScreen.currentTouch = f.out],
                when, d, f.havePointerIds)
             : f \in assembleFrom(rd.R.devices[d].multiTouchScreen.accumulator, 0,
                                  TouchDataClear, TRUE) }
      : rd \in refreshDisplayProperties(R) }

\* A single-touch merge that takes every value from the accumulator, set or not.
singleTouchCurrent_NotSticky(in) ==
    [down |-> in.accumulator.btnTouch, x |-> in.accumulator.absX, y |-> in.accumulator.absY,
     pressure |-> in.accumulator.absPressure, size |-> in.accumulator.absToolWidth]

singleTouchCurrent(in) ==
    LET fields == in.accumulator.fields
        acc == in.accumulator
        cur == in.current
    IN  [down |-> IF "BTN_TOUCH" \in fields THEN acc.btnTouch ELSE cur.down,
         x |-> IF "ABS_X" \in fields THEN acc.absX ELSE cur.x,
         y |-> IF "ABS_Y" \in fields THEN acc.absY ELSE cur.y,
         pressure |-> IF "ABS_PRESSURE" \in fields THEN acc.absPressure ELSE cur.pressure,
         size |-> IF "ABS_TOOL_WIDTH" \in fields THEN acc.absToolWidth ELSE cur.size]

singleTouchFrame(current) ==
    IF current.down
    THEN [TouchDataClear EXCEPT
            !.pointerCount = 1,
            !.pointers = <<[id |-> 0, x |-> current.x, y |-> current.y,
                            pressure |-> current.pressure, size |-> current.size]>>,
            !.idToIndex[0] = 0,
            !.idBits = markBit(@, 0)]
    ELSE TouchDataClear

onSingleTouchScreenStateChanged(R, when, d) ==
    UNION {
      IF ~rd.ok THEN {rd.R}
      ELSE LET current == singleTouchCurrent(rd.R.devices[d].singleTouchScreen)
           IN  onTouchScreenChanged(
                  [rd.R EXCEPT !.devices[d].singleTouchScreen.current = current,
                               !.devices[d].touchScreen.currentTouch = singleTouchFrame(current)],
                  when, d, TRUE)
      : rd \in refreshDisplayProperties(R) }

(***************************************************************************)
(* Keys, trackball, switches.                                              *)
(***************************************************************************)
AKEYCODE_DPAD_UP == 19
AKEYCODE_DPAD_DOWN == 20
AKEYCODE_DPAD_LEFT == 21
AKEYCODE_DPAD_RIGHT == 22
AKEYCODE_ALT_LEFT == 57
AKEYCODE_ALT_RIGHT == 58
AKEYCODE_SHIFT_LEFT == 59
AKEYCODE_SHIFT_RIGHT == 60
AKEYCODE_SYM == 63

\* An updateMetaState that leaves the combined bits alone when a key goes up.
updateMetaState_KeepsCombined(keyCode, down, oldMetaState) ==
    LET mask == CASE keyCode = AKEYCODE_ALT_LEFT -> {"META_ALT_LEFT_ON"}
                  [] keyCode = AKEYCODE_ALT_RIGHT -> {"META_ALT_RIGHT_ON"}
                  [] keyCode = AKEYCODE_SHIFT_LEFT -> {"META_SHIFT_LEFT_ON"}
                  [] keyCode = AKEYCODE_SHIFT_RIGHT -> {"META_SHIFT_RIGHT_ON"}
                  [] keyCode = AKEYCODE_SYM -> {"META_SYM_ON"}
                  [] OTHER -> {}
        new0 == IF down THEN oldMetaState \cup mask ELSE oldMetaState \ mask
        new1 == IF new0 \cap {"META_ALT_LEFT_ON", "META_ALT_RIGHT_ON"} # {}
                THEN new0 \cup {"META_ALT_ON"} ELSE new0
        new2 == IF new1 \cap {"META_SHIFT_LEFT_ON", "META_SHIFT_RIGHT_ON"} # {}
                THEN new1 \cup {"META_SHIFT_ON"} ELSE new1
    IN  IF mask = {} THEN oldMetaState ELSE new2

updateMetaState(keyCode, down, oldMetaState) ==
    LET mask == CASE keyCode = AKEYCODE_ALT_LEFT -> {"META_ALT_LEFT_ON"}
                  [] keyCode = AKEYCODE_ALT_RIGHT -> {"META_ALT_RIGHT_ON"}
                  [] keyCode = AKEYCODE_SHIFT_LEFT -> {"META_SHIFT_LEFT_ON"}
                  [] keyCode = AKEYCODE_SHIFT_RIGHT -> {"META_SHIFT_RIGHT_ON"}
                  [] keyCode = AKEYCODE_SYM -> {"META_SYM_ON"}
                  [] OTHER -> {}
        new0 == IF down THEN oldMetaState \cup mask
                ELSE (oldMetaState \ mask) \ {"META_ALT_ON", "META_SHIFT_ON"}
        new1 == IF new0 \cap {"META_ALT_LEFT_ON", "META_ALT_RIGHT_ON"} # {}
                THEN new0 \cup {"META_ALT_ON"} ELSE new0
        new2 == IF new1 \cap {"META_SHIFT_LEFT_ON", "META_SHIFT_RIGHT_ON"} # {}
                THEN new1 \cup {"META_SHIFT_ON"} ELSE new1
    IN  IF mask = {} THEN oldMetaState ELSE new2

keyCodeRotationMap ==
    << <<AKEYCODE_DPAD_DOWN, AKEYCODE_DPAD_RIGHT, AKEYCODE_DPAD_UP, AKEYCODE_DPAD_LEFT>>,
       <<AKEYCODE_DPAD_RIGHT, AKEYCODE_DPAD_UP, AKEYCODE_DPAD_LEFT, AKEYCODE_DPAD_DOWN>>,
       <<AKEYCODE_DPAD_UP, AKEYCODE_DPAD_LEFT, AKEYCODE_DPAD_DOWN, AKEYCODE_DPAD_RIGHT>>,
       <<AKEYCODE_DPAD_LEFT, AKEYCODE_DPAD_DOWN, AKEYCODE_DPAD_RIGHT, AKEYCODE_DPAD_UP>> >>

\* A rotateKeyCode that turns the other way round.
rotateKeyCode_Clockwise(keyCode, orientation) ==
    IF orientation # ROTATION_0 /\ \E i \in 1..Len(keyCodeRotationMap) : keyCodeRotationMap[i][1] = keyCode
    THEN keyCodeRotationMap[Min({i \in 1..Len(keyCodeRotationMap) :
                                    keyCodeRotationMap[i][1] = keyCode})][5 - orientation]
    ELSE keyCode

rotateKeyCode(keyCode, orientation) ==
    IF orientation # ROTATION_0 /\ \E i \in 1..Len(keyCodeRotationMap) : keyCodeRotationMap[i][1] = keyCode
    THEN keyCodeRotationMap[Min({i \in 1..Len(keyCodeRotationMap) :
                                    keyCodeRotationMap[i][1] = keyCode})][orientation + 1]
    ELSE keyCode

\* An onKey that records the down-time of the keys it dispatches only.
onKey_DownTimeOnDispatch(R, when, d, down, keyCode0, scanCode, policyFlags) ==
    UNION {
      IF ~rd.ok THEN {rd.R}
      ELSE
        LET oldMetaState == rd.R.devices[d].keyboard.metaState
            newMetaState == updateMetaState(keyCode0, down, oldMetaState)
            R1 == IF oldMetaState # newMetaState
                  THEN resetGlobalMetaState(
                          [rd.R EXCEPT !.devices[d].keyboard.metaState = newMetaState])
                  ELSE rd.R
            keyCode == rotateKeyCode(keyCode0, R1.display.o)
            R2 == IF down THEN [R1 EXCEPT !.devices[d].keyboard.downTime = when] ELSE R1
        IN  { LET R3 == Log(R1, [op |-> "interceptKey", when |-> when, deviceId |-> d,
                                 down |-> down, keyCode |-> keyCode, scanCode |-> scanCode,
                                 policyFlags |-> policyFlags, actions |-> policyActions])
                  ap == applyStandardInputDispatchPolicyActions(R3, when, policyActions, policyFlags)
              IN  IF ~ap.dispatch THEN ap.R
                  ELSE Log([ap.R EXCEPT !.devices = R2.devices],
                           [op |-> "notifyKey", when |-> when, deviceId |-> d,
                            nature |-> "KEY", policyFlags |-> ap.policyFlags,
                            action |-> IF down THEN "KEY_DOWN" ELSE "KEY_UP",
                            flags |-> {"FROM_SYSTEM"} \cup (policyActions \cap {"WOKE_HERE"}),
                            keyCode |-> keyCode, scanCode |-> scanCode,
                            metaState |-> R2.devices[d].keyboard.metaState,
                            downTime |-> R2.devices[d].keyboard.downTime])
              : policyActions \in InterceptKeyAnswers }
      : rd \in refreshDisplayProperties(R) }

onKey(R, when, d, down, keyCode0, scanCode, policyFlags) ==
    UNION {
      IF ~rd.ok THEN {rd.R}
      ELSE
        LET oldMetaState == rd.R.devices[d].keyboard.metaState
            newMetaState == updateMetaState(keyCode0, down, oldMetaState)
            R1 == IF oldMetaState # newMetaState
                  THEN resetGlobalMetaState(
                          [rd.R EXCEPT !.devices[d].keyboard.metaState = newMetaState])
                  ELSE rd.R
            keyCode == rotateKeyCode(keyCode0, R1.display.o)
            R2 == IF down THEN [R1 EXCEPT !.devices[d].keyboard.downTime = when] ELSE R1
        IN  { LET R3 == Log(R2, [op |-> "interceptKey", when |-> when, deviceId |-> d,
                                 down |-> down, keyCode |-> keyCode, scanCode |-> scanCode,
                                 policyFlags |-> policyFlags, actions |-> policyActions])
                  ap == applyStandardInputDispatchPolicyActions(R3, when, policyActions, policyFlags)
              IN  IF ~ap.dispatch THEN ap.R
                  ELSE Log(ap.R,
                           [op |-> "notifyKey", when |-> when, deviceId |-> d,
                            nature |-> "KEY", policyFlags |-> ap.policyFlags,
                            action |-> IF down THEN "KEY_DOWN" ELSE "KEY_UP",
                            flags |-> {"FROM_SYSTEM"} \cup (policyActions \cap {"WOKE_HERE"}),
                            keyCode |-> keyCode, scanCode |-> scanCode,
                            metaState |-> ap.R.devices[d].keyboard.metaState,
                            downTime |-> ap.R.devices[d].keyboard.downTime])
              : policyActions \in InterceptKeyAnswers }
      : rd \in refreshDisplayProperties(R) }

onSwitch(R, when, d, switchCode, switchValue) ==
    { applyStandardInputDispatchPolicyActions(
          Log(R, [op |-> "interceptSwitch", when |-> when, switchCode |-> switchCode,
                  switchValue |-> switchValue, actions |-> policyActions]),
          when, policyActions, {}).R
      : policyActions \in env.actions }

\* An onTrackballStateChanged that reports every frame as a movement.
onTrackballStateChanged_MoveOnly(R, when, d) ==
    UNION {
      IF ~rd.ok THEN {rd.R}
      ELSE
        LET tb == rd.R.devices[d].trackball
            fields == tb.accumulator.fields
            downChanged == "BTN_MOUSE" \in fields
            deltaChanged == fields \cap {"REL_X", "REL_Y"} # {}
            down == IF downChanged THEN tb.accumulator.btnMouse ELSE tb.down
            R1 == IF downChanged
                  THEN IF tb.accumulator.btnMouse
                       THEN [rd.R EXCEPT !.devices[d].trackball.down = TRUE,
                                         !.devices[d].trackball.downTime = when]
                       ELSE [rd.R EXCEPT !.devices[d].trackball.down = FALSE]
                  ELSE rd.R
            scale == Frac(1, TRACKBALL_MOVEMENT_THRESHOLD)
            x0 == IF "REL_X" \in fields THEN FMul(FInt(tb.accumulator.relX), scale) ELSE FInt(0)
            y0 == IF "REL_Y" \in fields THEN FMul(FInt(tb.accumulator.relY), scale) ELSE FInt(0)
            o == R1.display.o
            x == CASE o = ROTATION_90 -> y0 [] o = ROTATION_180 -> FNeg(x0)
                   [] o = ROTATION_270 -> FNeg(y0) [] OTHER -> x0
            y == CASE o = ROTATION_90 -> FNeg(x0) [] o = ROTATION_180 -> FNeg(y0)
                   [] o = ROTATION_270 -> x0 [] OTHER -> y0
        IN  { LET R2 == Log(R1, [op |-> "interceptTrackball", when |-> when,
                                 downChanged |-> downChanged, down |-> down,
                                 deltaChanged |-> deltaChanged, actions |-> policyActions])
                  ap == applyStandardInputDispatchPolicyActions(R2, when, policyActions, {})
                  R3 == globalMetaState(ap.R)
              IN  IF ~ap.dispatch THEN ap.R
                  ELSE Log(R3,
                           [op |-> "notifyMotion", when |-> when, deviceId |-> d,
                            nature |-> "TRACKBALL", policyFlags |-> ap.policyFlags,
                            action |-> "MOVE",
                            actionId |-> 0, metaState |-> R3.meta, edgeFlags |-> {},
                            pointerIds |-> <<0>>,
                            pointerCoords |-> <<[x |-> x, y |-> y, pressure |-> FInt(1),
                                                 size |-> FInt(0)]>>,
                            xPrecision |-> TRACKBALL_MOVEMENT_THRESHOLD,
                            yPrecision |-> TRACKBALL_MOVEMENT_THRESHOLD,
                            downTime |-> R3.devices[d].trackball.downTime])
              : policyActions \in env.actions }
      : rd \in refreshDisplayProperties(R) }

onTrackballStateChanged(R, when, d) ==
    UNION {
      IF ~rd.ok THEN {rd.R}
      ELSE
        LET tb == rd.R.devices[d].trackball
            fields == tb.accumulator.fields
            downChanged == "BTN_MOUSE" \in fields
            deltaChanged == fields \cap {"REL_X", "REL_Y"} # {}
            down == IF downChanged THEN tb.accumulator.btnMouse ELSE tb.down
            R1 == IF downChanged
                  THEN IF tb.accumulator.btnMouse
                       THEN [rd.R EXCEPT !.devices[d].trackball.down = TRUE,
                                         !.devices[d].trackball.downTime = when]
                       ELSE [rd.R EXCEPT !.devices[d].trackball.down = FALSE]
                  ELSE rd.R
            scale == Frac(1, TRACKBALL_MOVEMENT_THRESHOLD)
            x0 == IF "REL_X" \in fields THEN FMul(FInt(tb.accumulator.relX), scale) ELSE FInt(0)
            y0 == IF "REL_Y" \in fields THEN FMul(FInt(tb.accumulator.relY), scale) ELSE FInt(0)
            o == R1.display.o
            x == CASE o = ROTATION_90 -> y0 [] o = ROTATION_180 -> FNeg(x0)
                   [] o = ROTATION_270 -> FNeg(y0) [] OTHER -> x0
            y == CASE o = ROTATION_90 -> FNeg(x0) [] o = ROTATION_180 -> FNeg(y0)
                   [] o = ROTATION_270 -> x0 [] OTHER -> y0
        IN  { LET R2 == Log(R1, [op |-> "interceptTrackball", when |-> when,
                                 downChanged |-> downChanged, down |-> down,
                                 deltaChanged |-> deltaChanged, actions |-> policyActions])
                  ap == applyStandardInputDispatchPolicyActions(R2, when, policyActions, {})
                  R3 == globalMetaState(ap.R)
              IN  IF ~ap.dispatch THEN ap.R
                  ELSE Log(R3,
                           [op |-> "notifyMotion", when |-> when, deviceId |-> d,
                            nature |-> "TRACKBALL", policyFlags |-> ap.policyFlags,
                            action |-> IF downChanged THEN (IF down THEN "DOWN" ELSE "UP")
                                       ELSE "MOVE",
                            actionId |-> 0, metaState |-> R3.meta, edgeFlags |-> {},
                            pointerIds |-> <<0>>,
                            pointerCoords |-> <<[x |-> x, y |-> y, pressure |-> FInt(1),
                                                 size |-> FInt(0)]>>,
                            xPrecision |-> TRACKBALL_MOVEMENT_THRESHOLD,
                            yPrecision |-> TRACKBALL_MOVEMENT_THRESHOLD,
                            downTime |-> R3.devices[d].trackball.downTime])
              : policyActions \in env.actions }
      : rd \in refreshDisplayProperties(R) }

(***************************************************************************)
(* The registry.                                                           *)
(***************************************************************************)
getDevice(R, deviceId) == IF deviceId \in DOMAIN R.devices THEN <<R.devices[deviceId]>> ELSE <<>>

\* A getNonIgnoredDevice that finds ignored devices too.
getNonIgnoredDevice_AnyDevice(R, deviceId) == getDevice(R, deviceId)

getNonIgnoredDevice(R, deviceId) ==
    IF deviceId \in DOMAIN R.devices /\ ~R.devices[deviceId].ignored
    THEN <<R.devices[deviceId]>> ELSE <<>>

\* An addDevice that tells the dispatcher of every device it adds.
addDevice_NotifiesAlways(R, when, deviceId) ==
    LET classes == env.classes[deviceId]
        R0 == Log(R, [op |-> "getDeviceClasses", deviceId |-> deviceId])
        device == IF classes # {}
                  THEN configureDevice(R.display, InputDeviceReset(deviceId, classes))
                  ELSE [InputDeviceReset(deviceId, classes) EXCEPT !.ignored = TRUE]
        R1 == [R0 EXCEPT !.devices = [i \in DOMAIN R.devices \cup {deviceId} |->
                                         IF i = deviceId THEN device ELSE R.devices[i]]]
    IN  onConfigurationChanged(R1, when)

addDevice(R, when, deviceId) ==
    LET classes == env.classes[deviceId]
        R0 == Log(R, [op |-> "getDeviceClasses", deviceId |-> deviceId])
        device == IF classes # {}
                  THEN configureDevice(R.display, InputDeviceReset(deviceId, classes))
                  ELSE [InputDeviceReset(deviceId, classes) EXCEPT !.ignored = TRUE]
        R1 == [R0 EXCEPT !.devices = [i \in DOMAIN R.devices \cup {deviceId} |->
                                         IF i = deviceId THEN device ELSE R.devices[i]]]
    IN  IF ~device.ignored THEN onConfigurationChanged(R1, when) ELSE R1

removeDevice(R, when, device) ==
    LET R1 == [R EXCEPT !.devices = [i \in DOMAIN R.devices \ {device.id} |-> R.devices[i]]]
    IN  IF ~device.ignored THEN onConfigurationChanged(R1, when) ELSE R1

(***************************************************************************)
(* Raw events and their handlers.  Each handler gives the set of reader    *)
(* states it can end in, one per combination of answers of the             *)
(* collaborators it asks.                                                  *)
(***************************************************************************)
SYN_REPORT == 0
SYN_MT_REPORT == 2
BTN_MOUSE == 272
BTN_TOUCH == 330
REL_X == 0
REL_Y == 1
ABS_X == 0
ABS_Y == 1
ABS_PRESSURE == 24
ABS_TOOL_WIDTH == 28
ABS_MT_TOUCH_MAJOR == 48
ABS_MT_WIDTH_MAJOR == 50
ABS_MT_POSITION_X == 53
ABS_MT_POSITION_Y == 54
ABS_MT_TRACKING_ID == 57

RawEvent(deviceId, type, scanCode, keyCode, value) ==
    [deviceId |-> deviceId, type |-> type, scanCode |-> scanCode, keyCode |-> keyCode,
     flags |-> {}, value |-> value]

\* A handleDeviceAdded that adds the device again when it is there already.
handleDeviceAdded_Readds(R, when, rawEvent) == {addDevice(R, when, rawEvent.deviceId)}

handleDeviceAdded(R, when, rawEvent) ==
    IF getDevice(R, rawEvent.deviceId) # <<>> THEN {R}
    ELSE {addDevice(R, when, rawEvent.deviceId)}

handleDeviceRemoved(R, when, rawEvent) ==
    IF getDevice(R, rawEvent.deviceId) = <<>> THEN {R}
    ELSE {removeDevice(R, when, R.devices[rawEvent.deviceId])}

\* A SYN_MT_REPORT branch that counts every contact it is told of.
multiTouchReportSync_Unbounded(acc) ==
    LET pointerIndex0 == acc.pointerCount
        advance == acc.pointers[pointerIndex0].fields # {}
        pointerIndex == IF advance THEN pointerIndex0 + 1 ELSE pointerIndex0
    IN  [pointerCount |-> pointerIndex,
         pointers |-> [i \in DOMAIN acc.pointers \cup {pointerIndex} |->
                          IF i = pointerIndex THEN MTPointerClear ELSE acc.pointers[i]]]

\* The SYN_MT_REPORT branch of handleSync on the multi-touch accumulator.
multiTouchReportSync(acc) ==
    LET pointerIndex0 == acc.pointerCount
        advance == acc.pointers[pointerIndex0].fields # {} /\ pointerIndex0 # MAX_POINTERS
        pointerIndex == IF advance THEN pointerIndex0 + 1 ELSE pointerIndex0
    IN  [acc EXCEPT !.pointerCount = pointerIndex,
                    !.pointers[pointerIndex] = MTPointerClear]

\* The trackball part of the SYN_REPORT branch of handleSync.
trackballSync(R, when, d) ==
    IF TBIsDirty(R.devices[d].trackball.accumulator)
    THEN { [r EXCEPT !.devices[d].trackball.accumulator = TBAccumulatorClear] :
             r \in onTrackballStateChanged(R, when, d) }
    ELSE {R}

\* A touch part that commits the accumulator whether it is dirty or not.
touchSync_Always(R, when, d) ==
    LET device == R.devices[d] IN
    IF isMultiTouchScreen(device)
    THEN { [r EXCEPT !.devices[d].multiTouchScreen.accumulator = MTAccumulatorClear] :
             r \in onMultiTouchScreenStateChanged(R, when, d) }
    ELSE IF isSingleTouchScreen(device)
    THEN { [r EXCEPT !.devices[d].singleTouchScreen.accumulator = STAccumulatorClear] :
             r \in onSingleTouchScreenStateChanged(R, when, d) }
    ELSE {R}

\* The touch part of the SYN_REPORT branch of handleSync.
touchSync(R, when, d) ==
    LET device == R.devices[d] IN
    IF isMultiTouchScreen(device)
    THEN IF MTIsDirty(device.multiTouchScreen.accumulator)
         THEN { [r EXCEPT !.devices[d].multiTouchScreen.accumulator = MTAccumulatorClear] :
                  r \in onMultiTouchScreenStateChanged(R, when, d) }
         ELSE {R}
    ELSE IF isSingleTouchScreen(device)
    THEN IF STIsDirty(device.singleTouchScreen.accumulator)
         THEN { [r EXCEPT !.devices[d].singleTouchScreen.accumulator = STAccumulatorClear] :
                  r \in onSingleTouchScreenStateChanged(R, when, d) }
         ELSE {R}
    ELSE {R}

handleSync(R, when, rawEvent) ==
    LET d == rawEvent.deviceId IN
    IF getNonIgnoredDevice(R, d) = <<>> THEN {R}
    ELSE IF rawEvent.scanCode = SYN_MT_REPORT
    THEN IF isMultiTouchScreen(R.devices[d])
         THEN {[R EXCEPT !.devices[d].multiTouchScreen.accumulator = multiTouchReportSync(@)]}
         ELSE {R}
    ELSE IF rawEvent.scanCode = SYN_REPORT
    THEN UNION { trackballSync(r, when, d) : r \in touchSync(R, when, d) }
    ELSE {R}

handleKey(R, when, rawEvent) ==
    LET d == rawEvent.deviceId
        down == rawEvent.value # 0
    IN  IF getNonIgnoredDevice(R, d) = <<>> THEN {R}
        ELSE IF isSingleTouchScreen(R.devices[d]) /\ rawEvent.scanCode = BTN_TOUCH
        THEN {[R EXCEPT !.devices[d].singleTouchScreen.accumulator.fields = @ \cup {"BTN_TOUCH"},
                        !.devices[d].singleTouchScreen.accumulator.btnTouch = down]}
        ELSE IF isTrackball(R.devices[d]) /\ rawEvent.scanCode = BTN_MOUSE
        THEN {[R EXCEPT !.devices[d].trackball.accumulator.fields = @ \cup {"BTN_MOUSE"},
                        !.devices[d].trackball.accumulator.btnMouse = down]}
        ELSE IF isKeyboard(R.devices[d])
        THEN onKey(R, when, d, down, rawEvent.keyCode, rawEvent.scanCode, rawEvent.flags)
        ELSE {R}

handleRelativeMotion(R, when, rawEvent) ==
    LET d == rawEvent.deviceId IN
    IF getNonIgnoredDevice(R, d) = <<>> THEN {R}
    ELSE IF isTrackball(R.devices[d]) /\ rawEvent.scanCode = REL_X
    THEN {[R EXCEPT !.devices[d].trackball.accumulator.fields = @ \cup {"REL_X"},
                    !.devices[d].trackball.accumulator.relX = rawEvent.value]}
    ELSE IF isTrackball(R.devices[d]) /\ rawEvent.scanCode = REL_Y
    THEN {[R EXCEPT !.devices[d].trackball.accumulator.fields = @ \cup {"REL_Y"},
                    !.devices[d].trackball.accumulator.relY = rawEvent.value]}
    ELSE {R}

\* The multi-touch branch of handleAbsoluteMotion on the accumulator.
multiTouchAbsolute(acc, scanCode, value) ==
    LET i == acc.pointerCount IN
    CASE scanCode = ABS_MT_POSITION_X ->
           [acc EXCEPT !.pointers[i].fields = @ \cup {"ABS_MT_POSITION_X"},
                       !.pointers[i].absMTPositionX = value]
      [] scanCode = ABS_MT_POSITION_Y ->
           [acc EXCEPT !.pointers[i].fields = @ \cup {"ABS_MT_POSITION_Y"},
                       !.pointers[i].absMTPositionY = value]
      [] scanCode = ABS_MT_TOUCH_MAJOR ->
           [acc EXCEPT !.pointers[i].fields = @ \cup {"ABS_MT_TOUCH_MAJOR"},
                       !.pointers[i].absMTTouchMajor = value]
      [] scanCode = ABS_MT_WIDTH_MAJOR ->
           [acc EXCEPT !.pointers[i].fields = @ \cup {"ABS_MT_WIDTH_MAJOR"},
                       !.pointers[i].absMTWidthMajor = value]
      [] scanCode = ABS_MT_TRACKING_ID ->
           [acc EXCEPT !.pointers[i].fields = @ \cup {"ABS_MT_TRACKING_ID"},
                       !.pointers[i].absMTTrackingId = value]
      [] OTHER -> acc

\* The single-touch branch of handleAbsoluteMotion on the accumulator.
singleTouchAbsolute(acc, scanCode, value) ==
    CASE scanCode = ABS_X -> [acc EXCEPT !.fields = @ \cup {"ABS_X"}, !.absX = value]
      [] scanCode = ABS_Y -> [acc EXCEPT !.fields = @ \cup {"ABS_Y"}, !.absY = value]
      [] scanCode = ABS_PRESSURE ->
           [acc EXCEPT !.fields = @ \cup {"ABS_PRESSURE"}, !.absPressure = value]
      [] scanCode = ABS_TOOL_WIDTH ->
           [acc EXCEPT !.fields = @ \cup {"ABS_TOOL_WIDTH"}, !.absToolWidth = value]
      [] OTHER -> acc

handleAbsoluteMotion(R, when, rawEvent) ==
    LET d == rawEvent.deviceId IN
    IF getNonIgnoredDevice(R, d) = <<>> THEN {R}
    ELSE IF isMultiTouchScreen(R.devices[d])
    THEN {[R EXCEPT !.devices[d].multiTouchScreen.accumulator =
              multiTouchAbsolute(@, rawEvent.scanCode, rawEvent.value)]}
    ELSE IF isSingleTouchScreen(R.devices[d])
    THEN {[R EXCEPT !.devices[d].singleTouchScreen.accumulator =
              singleTouchAbsolute(@, rawEvent.scanCode, rawEvent.value)]}
    ELSE {R}

handleSwitch(R, when, rawEvent) ==
    IF getNonIgnoredDevice(R, rawEvent.deviceId) = <<>> THEN {R}
    ELSE onSwitch(R, when, rawEvent.deviceId, rawEvent.scanCode, rawEvent.value)

(***************************************************************************)
(* The event hub: what getEvent can return next.  A driver writes a        *)
(* report, a sequence of raw events, at once, and getEvent hands them out  *)
(* one by one; `pending' is what is left of the report being read.         *)
(***************************************************************************)
ContactEvents(d, c) ==
    <<RawEvent(d, "EV_ABS", ABS_MT_TOUCH_MAJOR, 0, c.touchMajor),
      RawEvent(d, "EV_ABS", ABS_MT_POSITION_X, 0, c.x)>>
    \o (IF c.hasId THEN <<RawEvent(d, "EV_ABS", ABS_MT_TRACKING_ID, 0, c.id)>> ELSE <<>>)
    \o <<RawEvent(d, "EV_SYN", SYN_MT_REPORT, 0, 0)>>

\* The reports of at most n contacts, without the closing SYN_REPORT.
RECURSIVE ContactReports(_, _)
ContactReports(d, n) ==
    IF n = 0 THEN {<<>>}
    ELSE {<<>>} \cup { ContactEvents(d, c) \o r : c \in env.contacts, r \in ContactReports(d, n - 1) }

MultiTouchReports(d) ==
    { r \o <<RawEvent(d, "EV_SYN", SYN_REPORT, 0, 0)>> : r \in ContactReports(d, env.maxContacts) }

\* The report of the contacts k..n of a driver whose k-th contact lies at
\* x = 0 and has the tracking id k - 1; with `gap', a SYN_MT_REPORT with no
\* field before it follows every contact.
RECURSIVE Burst(_, _, _, _)
Burst(d, k, n, gap) ==
    IF k > n THEN <<>>
    ELSE ContactEvents(d, [x |-> 0, touchMajor |-> 1, hasId |-> TRUE, id |-> k - 1])
         \o (IF gap THEN <<RawEvent(d, "EV_SYN", SYN_MT_REPORT, 0, 0)>> ELSE <<>>)
         \o Burst(d, k + 1, n, gap)

BurstReports(d) ==
    { Burst(d, 1, n, gap) \o <<RawEvent(d, "EV_SYN", SYN_REPORT, 0, 0)>>
      : n \in env.bursts, gap \in BOOLEAN }

SingleTouchReports(d) ==
    { b \o x \o y \o p \o w \o <<RawEvent(d, "EV_SYN", SYN_REPORT, 0, 0)>> :
        b \in (IF env.partial THEN {<<>>} ELSE {})
               \cup { <<RawEvent(d, "EV_KEY", BTN_TOUCH, 0, v)>> : v \in {0, 1} },
        x \in (IF env.partial THEN {<<>>} ELSE {})
               \cup { <<RawEvent(d, "EV_ABS", ABS_X, 0, v)>> : v \in env.xs },
        y \in {<<>>} \cup { <<RawEvent(d, "EV_ABS", ABS_Y, 0, v)>> : v \in env.ys },
        p \in {<<>>} \cup { <<RawEvent(d, "EV_ABS", ABS_PRESSURE, 0, v)>> : v \in env.pressures },
        w \in {<<>>} \cup { <<RawEvent(d, "EV_ABS", ABS_TOOL_WIDTH, 0, v)>> : v \in env.widths } }

\* The reports of a trackball: the button, a movement, both or neither.
TrackballReports(d) ==
    { b \o x \o y \o <<RawEvent(d, "EV_SYN", SYN_REPORT, 0, 0)>> :
        b \in {<<>>} \cup { <<RawEvent(d, "EV_KEY", BTN_MOUSE, 0, v)>> : v \in env.buttons },
        x \in {<<>>} \cup { <<RawEvent(d, "EV_REL", REL_X, 0, v)>> : v \in env.rels },
        y \in {<<>>} \cup { <<RawEvent(d, "EV_REL", REL_Y, 0, v)>> : v \in env.relYs } }

\* Raw events of a touch device that can come in any order ("raw" mode).
RawTouchEvents(d) ==
    { RawEvent(d, "EV_SYN", c, 0, 0) : c \in {SYN_REPORT, SYN_MT_REPORT} }
    \cup { RawEvent(d, "EV_ABS", ABS_MT_POSITION_X, 0, v) : v \in XVals }
    \cup { RawEvent(d, "EV_ABS", ABS_MT_POSITION_Y, 0, v) : v \in YVals }
    \cup { RawEvent(d, "EV_ABS", ABS_MT_TOUCH_MAJOR, 0, v) : v \in TouchMajorVals }
    \cup { RawEvent(d, "EV_ABS", ABS_MT_WIDTH_MAJOR, 0, v) : v \in WidthMajorVals }
    \cup { RawEvent(d, "EV_ABS", ABS_MT_TRACKING_ID, 0, v) : v \in env.ids }
    \cup { RawEvent(d, "EV_KEY", BTN_TOUCH, 0, v) : v \in {0, 1} }

\* Events of keys, trackballs and switches; each is a report of its own.
OtherEvents(d) ==
    { RawEvent(d, "EV_KEY", k, k, v) : k \in env.keys, v \in {0, 1} }
    \cup { RawEvent(d, "EV_KEY", BTN_MOUSE, 0, v) : v \in env.buttons }
    \cup { RawEvent(d, "EV_REL", c, 0, v) : c \in {REL_X, REL_Y}, v \in env.rels }
    \cup { RawEvent(d, "EV_SW", 0, 0, v) : v \in env.switches }
    \cup { RawEvent(d, "EV_ABS", ABS_X, 0, v) : v \in env.abs }

OtherReports(d) ==
    { <<e>> \o (IF env.syn THEN <<RawEvent(d, "EV_SYN", SYN_REPORT, 0, 0)>> ELSE <<>>)
      : e \in OtherEvents(d) }

DeviceEvents(d) ==
    { RawEvent(d, t, 0, 0, 0) : t \in {"DEVICE_ADDED", "DEVICE_REMOVED"} }

Reports ==
    UNION { { <<e>> : e \in DeviceEvents(d) }
            \cup (IF d \in env.others THEN OtherReports(d) ELSE {})
            \cup (IF env.mode = "raw" THEN { <<e>> : e \in RawTouchEvents(d) }
                  ELSE IF env.mode = "burst" THEN BurstReports(d)
                  ELSE IF CLASS_TOUCHSCREEN_MT \in env.classes[d] THEN MultiTouchReports(d)
                  ELSE IF CLASS_TOUCHSCREEN \in env.classes[d] THEN SingleTouchReports(d)
                  ELSE {})
            \cup (IF CLASS_TRACKBALL \in env.classes[d] THEN TrackballReports(d) ELSE {})
            : d \in env.devs }

\* The rest of the report being read, or a new report.
NextReports == IF pending # <<>> THEN {pending} ELSE Reports

(***************************************************************************)
(* Threads.  The reader thread runs loopOnce over and over                 *)
(* (InputReaderThread::threadLoop); any other thread can call the          *)
(* getCurrent... functions at any time.                                    *)
(***************************************************************************)
Unlocked == "unlocked"

ReaderThread == "reader"

QueryThreads == {"query" \o ToString(i) : i \in 1..NumQueries}

\* The reader thread outside every call and critical section: todo is what
\* is left of the iteration it is in, final the device records at its end,
\* writes what is left of the critical section it is in, updated the
\* exported values that the updates that ran to their end have written.
ReaderOutside ==
    [todo |-> <<>>, final |-> [i \in {} |-> 0], writes |-> <<>>,
     updated |-> {ExportedVirtualKeyUpdate(-1, -1)}]

\* No virtual-key event yet.
NoKey == [action |-> "NONE", keyCode |-> 0, scanCode |-> 0, downTime |-> 0]

\* A query thread that is in none of the functions.
QueryOutside == [op |-> "none", pc |-> "none", arg |-> 0, out |-> <<>>]

(***************************************************************************)
(* The state machine.                                                      *)
(***************************************************************************)
InputConfigurations ==
    [touchScreen : {"TOUCHSCREEN_NOTOUCH", "TOUCHSCREEN_FINGER"},
     keyboard : {"KEYBOARD_NOKEYS", "KEYBOARD_QWERTY"},
     navigation : {"NAVIGATION_NONAV", "NAVIGATION_DPAD", "NAVIGATION_TRACKBALL"}]

\* The reader after its constructor: configureExcludedDevices,
\* resetGlobalMetaState, resetDisplayProperties, updateExportedVirtualKeyState.
\* The constructor does not set mExportedInputConfiguration.
InitReader ==
    /\ mDevices = [i \in {} |-> 0]
    /\ mDisplay = UnknownDisplay
    /\ mGlobalMetaState = InvalidMeta
    /\ \E c \in InputConfigurations :
          mExported = [virtualKeyCode |-> -1, virtualScanCode |-> -1, inputConfiguration |-> c]
    /\ now = 0
    /\ pending = <<>>
    /\ trace = <<[op |-> "getExcludedDeviceNames"]>>
    /\ mExportedStateLock = Unlocked
    /\ reader = ReaderOutside
    /\ queries = [t \in QueryThreads |-> QueryOutside]
    /\ dispatcherSeen = [d \in DeviceIds |-> [down |-> {}, intact |-> TRUE, key |-> NoKey, pressed |-> {}]]

\* The pointers of a device that the dispatcher has seen go down and not yet
\* up, after one more touch motion event.
SeenAfter(down, e) ==
    CASE e.action = "DOWN" -> down \cup { e.pointerIds[i] : i \in DOMAIN e.pointerIds }
      [] e.action = "POINTER_DOWN" -> down \cup {e.actionId}
      [] e.action = "POINTER_UP" -> down \ {e.actionId}
      [] e.action = "UP" -> down \ { e.pointerIds[i] : i \in DOMAIN e.pointerIds }
      [] OTHER -> down

RECURSIVE SeenAfterAll(_, _)
SeenAfterAll(down, events) ==
    IF events = <<>> THEN down
    ELSE SeenAfterAll(SeenAfter(down, Head(events)), Tail(events))

\* The touch motion events of device d among the calls t.
TouchEventsOf(t, d) ==
    SelectSeq(t, LAMBDA e : e.op = "notifyMotion" /\ e.nature = "TOUCH" /\ e.deviceId = d)

\* The policy dropped a touch frame of device d in the iteration.
FrameDropped(t, d) ==
    /\ \E i \in DOMAIN t : t[i].op = "onTouchScreenChanged" /\ t[i].deviceId = d
    /\ \E i \in DOMAIN t : t[i].op = "interceptTouch" /\ "DISPATCH" \notin t[i].actions

\* The virtual-key events of device d among the calls t.
VirtualKeyEventsOf(t, d) ==
    SelectSeq(t, LAMBDA e : /\ e.op = "notifyKey" /\ e.deviceId = d
                            /\ "VIRTUAL_HARD_KEY" \in e.flags)

\* What identifies a key event to the dispatcher.
KeySeen(e) ==
    [action |-> e.action, keyCode |-> e.keyCode, scanCode |-> e.scanCode,
     downTime |-> e.downTime]

\* The events of the keys of keyboard d among the calls t.
KeyboardEventsOf(t, d) ==
    SelectSeq(t, LAMBDA e : /\ e.op = "notifyKey" /\ e.deviceId = d
                            /\ "VIRTUAL_HARD_KEY" \notin e.flags)

\* The keys of keyboard d that are pressed with their key-down dispatched,
\* as scan code and dispatched key code, after rawEvent and the calls t: a
\* press starts with the key's down event and ends with its up event.
PressedAfter(pressed, d, t, rawEvent) ==
    IF rawEvent.type # "EV_KEY" \/ rawEvent.deviceId # d THEN pressed
    ELSE LET others == {p \in pressed : p.scanCode # rawEvent.scanCode}
             events == KeyboardEventsOf(t, d)
         IN  IF rawEvent.value # 0 /\ events # <<>>
             THEN others \cup {[scanCode |-> rawEvent.scanCode,
                                keyCode |-> events[1].keyCode]}
             ELSE others

\* What the dispatcher has seen of device d after an iteration that read
\* rawEvent and made the calls t; intact is lost when the reader forgets
\* pointers the dispatcher still has down: a frame the policy drops, or the
\* removal of the device.  key is the last virtual-key event of the device
\* object, which ends with the removal of the device.
Watch(d, t, rawEvent) ==
    LET old == dispatcherSeen[d]
        removed == /\ rawEvent.type = "DEVICE_REMOVED" /\ rawEvent.deviceId = d
                   /\ d \in DOMAIN mDevices
        forgot == FrameDropped(t, d) \/ removed
        keys == VirtualKeyEventsOf(t, d)
    IN  [down |-> SeenAfterAll(old.down, TouchEventsOf(t, d)),
         intact |-> old.intact /\ ~(forgot /\ old.down # {}),
         key |-> IF removed THEN NoKey
                 ELSE IF keys = <<>> THEN old.key
                 ELSE KeySeen(keys[Len(keys)]),
         pressed |-> IF removed THEN {}
                     ELSE PressedAfter(old.pressed, d, t, rawEvent)]

\* InputReader::loopOnce on the first event of report r.
Times == {now, IF now < MaxTime THEN now + 1 ELSE now}

Commit(R, when, r) ==
        /\ mDevices' = R.devices
        /\ mDisplay' = R.display
        /\ mGlobalMetaState' = R.meta
        /\ mExported' = R.exported
        /\ trace' = <<[op |-> "getEvent", rawEvent |-> Head(r)]>> \o R.trace
        /\ now' = when
        /\ pending' = Tail(r)
        /\ dispatcherSeen' = IF env.watch THEN [d \in DeviceIds |-> Watch(d, R.trace, Head(r))]
                              ELSE dispatcherSeen
        /\ UNCHANGED <<env, mExportedStateLock, reader, queries>>

HandleDeviceAdded == \E r \in NextReports : Head(r).type = "DEVICE_ADDED" /\ \E when \in Times : \E R \in handleDeviceAdded(ReaderState, when, Head(r)) : Commit(R, when, r)
HandleDeviceRemoved == \E r \in NextReports : Head(r).type = "DEVICE_REMOVED" /\ \E when \in Times : \E R \in handleDeviceRemoved(ReaderState, when, Head(r)) : Commit(R, when, r)
HandleSync == \E r \in NextReports : Head(r).type = "EV_SYN" /\ \E when \in Times : \E R \in handleSync(ReaderState, when, Head(r)) : Commit(R, when, r)
HandleKey == \E r \in NextReports : Head(r).type = "EV_KEY" /\ \E when \in Times : \E R \in handleKey(ReaderState, when, Head(r)) : Commit(R, when, r)
HandleRelativeMotion == \E r \in NextReports : Head(r).type = "EV_REL" /\ \E when \in Times : \E R \in handleRelativeMotion(ReaderState, when, Head(r)) : Commit(R, when, r)
HandleAbsoluteMotion == \E r \in NextReports : Head(r).type = "EV_ABS" /\ \E when \in Times : \E R \in handleAbsoluteMotion(ReaderState, when, Head(r)) : Commit(R, when, r)
HandleSwitch == \E r \in NextReports : Head(r).type = "EV_SW" /\ \E when \in Times : \E R \in handleSwitch(ReaderState, when, Head(r)) : Commit(R, when, r)

Next ==
    \/ HandleDeviceAdded
    \/ HandleDeviceRemoved
    \/ HandleSync
    \/ HandleKey
    \/ HandleRelativeMotion
    \/ HandleAbsoluteMotion
    \/ HandleSwitch

(***************************************************************************)
(* The same machine one instruction of one thread at a time, for what the  *)
(* threads that share mExportedStateLock can see of each other.            *)
(***************************************************************************)
\* InputReader::process: the handler of the event's type.
process(R, when, rawEvent) ==
    CASE rawEvent.type = "DEVICE_ADDED" -> handleDeviceAdded(R, when, rawEvent)
      [] rawEvent.type = "DEVICE_REMOVED" -> handleDeviceRemoved(R, when, rawEvent)
      [] rawEvent.type = "EV_SYN" -> handleSync(R, when, rawEvent)
      [] rawEvent.type = "EV_KEY" -> handleKey(R, when, rawEvent)
      [] rawEvent.type = "EV_REL" -> handleRelativeMotion(R, when, rawEvent)
      [] rawEvent.type = "EV_ABS" -> handleAbsoluteMotion(R, when, rawEvent)
      [] rawEvent.type = "EV_SW" -> handleSwitch(R, when, rawEvent)
      [] OTHER -> {R}

UpdateOps == {"updateExportedVirtualKeyState", "updateExportedInputConfiguration"}

\* Entries of the trace that stand for a step inside the reader, not for a
\* call on a collaborator.
InternalOps == {"onTouchScreenChanged", "consumeVirtualKeyTouches"}

\* The functions other threads call, as the instructions they execute.
\* A return inside the scope of an AutoMutex computes its value, then the
\* destructor of the AutoMutex unlocks, then the function returns.
getCurrentVirtualKey ==
    <<[ins |-> "lock"],
      [ins |-> "read", field |-> "virtualKeyCode", to |-> "keyCode"],
      [ins |-> "read", field |-> "virtualScanCode", to |-> "scanCode"],
      [ins |-> "test", field |-> "virtualKeyCode", to |-> "result"],
      [ins |-> "unlock"],
      [ins |-> "return"]>>

\* The copy of the structure, member by member.
getCurrentInputConfiguration ==
    <<[ins |-> "lock"],
      [ins |-> "read", field |-> "touchScreen", to |-> "touchScreen"],
      [ins |-> "read", field |-> "keyboard", to |-> "keyboard"],
      [ins |-> "read", field |-> "navigation", to |-> "navigation"],
      [ins |-> "unlock"],
      [ins |-> "return"]>>

getCurrentScanCodeState_CallsLocked ==
    <<[ins |-> "lock"],
      [ins |-> "unless", field |-> "virtualScanCode", goto |-> 5],
      [ins |-> "unlock"],
      [ins |-> "return"],
      [ins |-> "call", op |-> "getScanCodeState"],
      [ins |-> "unlock"],
      [ins |-> "return"]>>

\* if (mExportedVirtualScanCode == scanCode) return KEY_STATE_VIRTUAL, inside
\* the scope of the lock; the call on the event hub after the scope.
getCurrentScanCodeState ==
    <<[ins |-> "lock"],
      [ins |-> "unless", field |-> "virtualScanCode", goto |-> 5],
      [ins |-> "unlock"],
      [ins |-> "return"],
      [ins |-> "unlock"],
      [ins |-> "call", op |-> "getScanCodeState"],
      [ins |-> "return"]>>

getCurrentKeyCodeState ==
    <<[ins |-> "lock"],
      [ins |-> "unless", field |-> "virtualKeyCode", goto |-> 5],
      [ins |-> "unlock"],
      [ins |-> "return"],
      [ins |-> "unlock"],
      [ins |-> "call", op |-> "getKeyCodeState"],
      [ins |-> "return"]>>

\* The functions a query thread can call, with the arguments it can pass.
QueryCalls ==
    { [op |-> "getCurrentVirtualKey", arg |-> 0],
      [op |-> "getCurrentInputConfiguration", arg |-> 0] }
    \cup { [op |-> "getCurrentScanCodeState", arg |-> c] : c \in env.queryScanCodes }
    \cup { [op |-> "getCurrentKeyCodeState", arg |-> c] : c \in env.queryKeyCodes }

ProgramOf(op) ==
    CASE op = "getCurrentVirtualKey" -> getCurrentVirtualKey
      [] op = "getCurrentInputConfiguration" -> getCurrentInputConfiguration
      [] op = "getCurrentScanCodeState" -> getCurrentScanCodeState
      [] op = "getCurrentKeyCodeState" -> getCurrentKeyCodeState
      [] OTHER -> <<>>

\* The instruction thread t is about to execute.
InstructionOf(q) ==
    IF q.op = "none" THEN [ins |-> "none"] ELSE ProgramOf(q.op)[q.pc]

\* A member of the exported state.
ExportedField(exported, field) ==
    CASE field = "virtualKeyCode" -> exported.virtualKeyCode
      [] field = "virtualScanCode" -> exported.virtualScanCode
      [] field = "touchScreen" -> exported.inputConfiguration.touchScreen
      [] field = "keyboard" -> exported.inputConfiguration.keyboard
      [] field = "navigation" -> exported.inputConfiguration.navigation

WriteExportedField(exported, field, value) ==
    CASE field = "virtualKeyCode" -> [exported EXCEPT !.virtualKeyCode = value]
      [] field = "virtualScanCode" -> [exported EXCEPT !.virtualScanCode = value]
      [] field = "touchScreen" -> [exported EXCEPT !.inputConfiguration.touchScreen = value]
      [] field = "keyboard" -> [exported EXCEPT !.inputConfiguration.keyboard = value]
      [] field = "navigation" -> [exported EXCEPT !.inputConfiguration.navigation = value]

\* The device records of the reader thread when it has todo left of its
\* iteration: as they are when it makes the next call or update, and as the
\* iteration leaves them when there is none.
DevicesAt(todo, final) == IF todo = <<>> THEN final ELSE Head(todo).devices

\* The reader thread takes an event from the event hub and runs its handler
\* on the reader's own state, up to the first call or update of the exported
\* state the handler makes; the calls and the updates are the steps that
\* follow, each with the handler's code up to the next.
ReaderLoopOnce ==
    /\ reader.todo = <<>>
    /\ \E r \in NextReports : \E when \in Times :
         \E R \in process(ReaderState, when, Head(r)) :
            LET todo == SelectSeq(R.log, LAMBDA e : e.call.op \notin InternalOps)
            IN  /\ mDevices' = DevicesAt(todo, R.devices)
                /\ mDisplay' = R.display
                /\ mGlobalMetaState' = R.meta
                /\ trace' = <<[op |-> "getEvent", rawEvent |-> Head(r)]>>
                /\ now' = when
                /\ pending' = Tail(r)
                /\ reader' = [reader EXCEPT !.todo = todo, !.final = R.devices]
    /\ UNCHANGED <<mExported, env, mExportedStateLock, queries, dispatcherSeen>>

\* The reader thread calls the event hub, the policy or the dispatcher.
ReaderCall ==
    /\ reader.todo # <<>>
    /\ Head(reader.todo).call.op \notin UpdateOps
    /\ trace' = Append(trace, Head(reader.todo).call)
    /\ reader' = [reader EXCEPT !.todo = Tail(@)]
    /\ mDevices' = DevicesAt(Tail(reader.todo), reader.final)
    /\ UNCHANGED <<dispatcherSeen, mDisplay, mGlobalMetaState, mExported, now, pending, env,
                   mExportedStateLock, queries>>

\* AutoMutex _l(mExportedStateLock) in one of the two update functions.
ReaderLock ==
    /\ reader.todo # <<>>
    /\ Head(reader.todo).call.op \in UpdateOps
    /\ mExportedStateLock = Unlocked
    /\ mExportedStateLock' = ReaderThread
    /\ reader' = [reader EXCEPT !.writes = Head(reader.todo).call.writes]
    /\ UNCHANGED <<dispatcherSeen, mDevices, mDisplay, mGlobalMetaState, mExported, now, pending, trace,
                   env, queries>>

\* One assignment of the critical section.
ReaderWrite ==
    /\ mExportedStateLock = ReaderThread
    /\ reader.writes # <<>>
    /\ mExported' = WriteExportedField(mExported, Head(reader.writes).field,
                                       Head(reader.writes).value)
    /\ reader' = [reader EXCEPT !.writes = Tail(@)]
    /\ UNCHANGED <<dispatcherSeen, mDevices, mDisplay, mGlobalMetaState, now, pending, trace, env,
                   mExportedStateLock, queries>>

\* The end of the scope of the AutoMutex.
ReaderUnlock ==
    /\ mExportedStateLock = ReaderThread
    /\ reader.writes = <<>>
    /\ mExportedStateLock' = Unlocked
    /\ reader' = [reader EXCEPT !.todo = Tail(@),
                                 !.updated = @ \cup {Head(reader.todo).call}]
    /\ mDevices' = DevicesAt(Tail(reader.todo), reader.final)
    /\ UNCHANGED <<dispatcherSeen, mDisplay, mGlobalMetaState, mExported, now, pending, trace,
                   env, queries>>

QueryUnchanged ==
    UNCHANGED <<dispatcherSeen, mDevices, mDisplay, mGlobalMetaState, mExported, now, pending, trace,
                env, reader>>

\* Thread t calls one of the functions.
QueryEnter(t) ==
    /\ queries[t].op = "none"
    /\ \E c \in QueryCalls :
         queries' = [queries EXCEPT ![t] = [op |-> c.op, pc |-> 1, arg |-> c.arg,
                                            out |-> QueryOutside.out]]
    /\ UNCHANGED mExportedStateLock
    /\ QueryUnchanged

QueryLock(t) ==
    /\ InstructionOf(queries[t]).ins = "lock"
    /\ mExportedStateLock = Unlocked
    /\ mExportedStateLock' = t
    /\ queries' = [queries EXCEPT ![t].pc = @ + 1]
    /\ QueryUnchanged

\* Thread t reads a member of the exported state: into one of its outputs,
\* to compare it with -1, or to compare it with its argument.
QueryRead(t) ==
    LET i == InstructionOf(queries[t])
        v == ExportedField(mExported, i.field)
    IN  /\ i.ins \in {"read", "test", "unless"}
        /\ queries' = [queries EXCEPT ![t] =
              CASE i.ins = "read" -> [@ EXCEPT !.pc = @ + 1, !.out = Append(@, <<i.to, v>>)]
                [] i.ins = "test" -> [@ EXCEPT !.pc = @ + 1, !.out = Append(@, <<i.to, v # -1>>)]
                [] i.ins = "unless" ->
                     IF v = queries[t].arg
                     THEN [@ EXCEPT !.pc = @ + 1, !.out = Append(@, <<"result", "KEY_STATE_VIRTUAL">>)]
                     ELSE [@ EXCEPT !.pc = i.goto]]
        /\ UNCHANGED mExportedStateLock
        /\ QueryUnchanged

QueryUnlock(t) ==
    /\ InstructionOf(queries[t]).ins = "unlock"
    /\ mExportedStateLock = t
    /\ mExportedStateLock' = Unlocked
    /\ queries' = [queries EXCEPT ![t].pc = @ + 1]
    /\ QueryUnchanged

\* Thread t asks the event hub for the state of the key.
QueryCall(t) ==
    /\ InstructionOf(queries[t]).ins = "call"
    /\ queries' = [queries EXCEPT ![t].pc = @ + 1,
                                  ![t].out = Append(@, <<"result", InstructionOf(queries[t]).op>>)]
    /\ UNCHANGED mExportedStateLock
    /\ QueryUnchanged

QueryReturn(t) ==
    /\ InstructionOf(queries[t]).ins = "return"
    /\ queries' = [queries EXCEPT ![t] = QueryOutside]
    /\ UNCHANGED mExportedStateLock
    /\ QueryUnchanged

NextThreads ==
    \/ ReaderLoopOnce
    \/ ReaderCall
    \/ ReaderLock
    \/ ReaderWrite
    \/ ReaderUnlock
    \/ \E t \in QueryThreads : QueryEnter(t)
    \/ \E t \in QueryThreads : QueryLock(t)
    \/ \E t \in QueryThreads : QueryRead(t)
    \/ \E t \in QueryThreads : QueryUnlock(t)
    \/ \E t \in QueryThreads : QueryCall(t)
    \/ \E t \in QueryThreads : QueryReturn(t)

(***************************************************************************)
(* Environments.                                                           *)
(***************************************************************************)
\* One multi-touch screen whose driver reports tracking ids, with a virtual
\* key at x = 1; the policy can drop any event.
EnvTouch ==
    [devs |-> {1},
     classes |-> [d \in DeviceIds |-> IF d = 1 THEN {CLASS_TOUCHSCREEN, CLASS_TOUCHSCREEN_MT} ELSE {}],
     mode |-> "frames",
     contacts |-> { [x |-> x, touchMajor |-> 1, hasId |-> TRUE, id |-> id] :
                      x \in {0, 1}, id \in 0..MaxId },
     maxContacts |-> MaxContacts,
     bursts |-> {},
     xs |-> {0, 1}, ys |-> {}, widths |-> {}, relYs |-> {},
     partial |-> TRUE,
     others |-> {1},
     abs |-> {}, syn |-> FALSE,
     ids |-> 0..MaxId,
     pressures |-> {},
     keys |-> {29}, buttons |-> {}, rels |-> {1}, switches |-> {1},
     vkDefs |-> [d \in DeviceIds |-> <<VirtualKeyAt(158, 1)>>],
     displays |-> {DisplayOk(2, 2, ROTATION_0)},
     dispFail |-> FALSE,
     actions |-> {{"DISPATCH"}, {}},
     keyActions |-> {},
     filter |-> FALSE, jumpy |-> FALSE,
     queryScanCodes |-> {}, queryKeyCodes |-> {},
     watch |-> FALSE]

\* One multi-touch screen with two virtual keys, at x = 1 and at x = 2; a
\* first finger anywhere, a second finger at x = 0, and a contact the driver
\* reports as lifted (touch-major 0).
EnvKeys ==
    [EnvTouch EXCEPT
        !.contacts = { [x |-> x, touchMajor |-> 1, hasId |-> TRUE, id |-> 0] : x \in XVals }
                     \cup { [x |-> 0, touchMajor |-> 1, hasId |-> TRUE, id |-> 1],
                            [x |-> 0, touchMajor |-> 0, hasId |-> TRUE, id |-> 0] },
        !.vkDefs = [d \in DeviceIds |-> <<VirtualKeyAt(102, 2), VirtualKeyAt(158, 1)>>]]

\* Two single-touch screens, each with a virtual key of its own at x = 1;
\* the display info can be unavailable.
EnvTwo ==
    [EnvTouch EXCEPT
        !.devs = {1, 2},
        !.classes = [d \in DeviceIds |-> {CLASS_TOUCHSCREEN}],
        !.partial = FALSE,
        !.keys = {},
        !.vkDefs = [d \in DeviceIds |-> <<VirtualKeyAt(IF d = 1 THEN 102 ELSE 158, 1)>>],
        !.dispFail = TRUE]

\* One keyboard with the two ALT keys, the two SHIFT keys, SYM and the
\* letter A (key code 29); like every evdev keyboard it closes each event
\* with a SYN_REPORT.
EnvMeta ==
    [EnvTouch EXCEPT
        !.classes = [d \in DeviceIds |-> IF d = 1 THEN {CLASS_KEYBOARD, CLASS_ALPHAKEY} ELSE {}],
        !.keys = {AKEYCODE_ALT_LEFT, AKEYCODE_ALT_RIGHT, AKEYCODE_SHIFT_LEFT,
                  AKEYCODE_SHIFT_RIGHT, AKEYCODE_SYM, 29},
        !.abs = {0}, !.syn = TRUE,
        !.vkDefs = [d \in DeviceIds |-> <<>>]]

\* One multi-touch screen whose driver reports up to MaxBurst contacts at
\* once, more than the reader has room for; no virtual keys.
EnvBurst ==
    [EnvTouch EXCEPT
        !.mode = "burst",
        !.bursts = {0, 1, MAX_POINTERS, MaxBurst},
        !.vkDefs = [d \in DeviceIds |-> <<>>]]

\* A multi-touch screen that reports one contact, down or lifted, and a
\* single-touch screen with a trackball on the same device, whose driver
\* reports the button and the position, never a pressure; no virtual keys.
EnvSync ==
    [EnvTouch EXCEPT
        !.devs = {1, 2},
        !.classes = [d \in DeviceIds |->
                        IF d = 1 THEN {CLASS_TOUCHSCREEN, CLASS_TOUCHSCREEN_MT}
                        ELSE {CLASS_TOUCHSCREEN, CLASS_TRACKBALL}],
        !.contacts = { [x |-> 0, touchMajor |-> t, hasId |-> TRUE, id |-> 0] : t \in {0, 1} },
        !.maxContacts = 1,
        !.xs = {0},
        !.keys = {}, !.buttons = {0, 1},
        !.vkDefs = [d \in DeviceIds |-> <<>>]]

\* One single-touch screen whose driver reports what changed: the button,
\* x, y, the pressure, the tool width, each or none of them; no virtual keys.
EnvSingle ==
    [EnvTouch EXCEPT
        !.classes = [d \in DeviceIds |-> IF d = 1 THEN {CLASS_TOUCHSCREEN} ELSE {}],
        !.xs = {0, 1}, !.ys = {1}, !.pressures = {1}, !.widths = {1},
        !.vkDefs = [d \in DeviceIds |-> <<>>]]

\* One multi-touch screen whose driver reports contacts with the tracking
\* ids 0 and MAX_POINTER_ID, with the ids -1 and MAX_POINTER_ID + 1, and
\* with no id; a lifted contact has no id either.  No virtual keys.
EnvIds ==
    [EnvTouch EXCEPT
        !.contacts = { [x |-> 0, touchMajor |-> 1, hasId |-> TRUE, id |-> id] :
                         id \in {-1, 0, MAX_POINTER_ID, MAX_POINTER_ID + 1} }
                     \cup { [x |-> 0, touchMajor |-> t, hasId |-> FALSE, id |-> 0] : t \in {0, 1} },
        !.ids = {-1, 0, MAX_POINTER_ID, MAX_POINTER_ID + 1},
        !.vkDefs = [d \in DeviceIds |-> <<>>]]

\* One keyboard with a DPAD, the left ALT key and the letter A, under a
\* display that can have any of the four orientations and whose info can
\* be unavailable; the policy can wake the device and drop the event.
EnvDpad ==
    [EnvTouch EXCEPT
        !.classes = [d \in DeviceIds |-> IF d = 1 THEN {CLASS_KEYBOARD, CLASS_DPAD} ELSE {}],
        !.keys = {AKEYCODE_DPAD_UP, AKEYCODE_DPAD_DOWN, AKEYCODE_DPAD_LEFT, AKEYCODE_DPAD_RIGHT,
                  AKEYCODE_ALT_LEFT, 29},
        !.abs = {0}, !.syn = TRUE,
        !.displays = { DisplayOk(2, 2, o) :
                         o \in {ROTATION_0, ROTATION_90, ROTATION_180, ROTATION_270} },
        !.dispFail = TRUE,
        !.actions = {{}, {"DISPATCH"}, {"WOKE_HERE"}, {"DISPATCH", "WOKE_HERE"}},
        !.vkDefs = [d \in DeviceIds |-> <<>>]]

\* One keyboard with the up and the left key of a DPAD and the letter A,
\* under a display that can have any of the four orientations; the policy
\* lets every key through, and what the dispatcher is told is recorded.
EnvPress ==
    [EnvDpad EXCEPT
        !.keys = {AKEYCODE_DPAD_UP, AKEYCODE_DPAD_LEFT, 29},
        !.dispFail = FALSE,
        !.actions = {{"DISPATCH"}},
        !.watch = TRUE]

\* The class sets the event hub can report for a device: none (not an input
\* device), a single-touch screen, a keyboard with letters, a keyboard with
\* a DPAD, a trackball.
RegistryClasses ==
    { {}, {CLASS_TOUCHSCREEN}, {CLASS_KEYBOARD, CLASS_ALPHAKEY},
      {CLASS_KEYBOARD, CLASS_DPAD}, {CLASS_TRACKBALL} }

\* Two devices of any of these classes that come and go: a keyboard sends
\* the left ALT key, a switch and a movement, a trackball and a touch screen
\* whole reports; no virtual keys.
EnvRegistry(classes) ==
    [EnvTouch EXCEPT
        !.devs = {1, 2},
        !.classes = classes,
        !.others = {d \in DeviceIds : CLASS_KEYBOARD \in classes[d]},
        !.keys = {AKEYCODE_ALT_LEFT},
        !.xs = {0},
        !.partial = FALSE,
        !.buttons = {1},
        !.vkDefs = [d \in DeviceIds |-> <<>>]]

\* One multi-touch screen with a virtual key at x = 1 whose driver reports
\* a finger with the tracking id 0 at x = 0 or x = 1, a finger without a
\* tracking id at x = 0, and a lifted contact; the policy can drop any frame.
EnvDrop ==
    [EnvTouch EXCEPT
        !.contacts = { [x |-> x, touchMajor |-> 1, hasId |-> TRUE, id |-> 0] : x \in {0, 1} }
                     \cup { [x |-> 0, touchMajor |-> 1, hasId |-> FALSE, id |-> 0],
                            [x |-> 0, touchMajor |-> 0, hasId |-> TRUE, id |-> 0] }]

\* One device that is a keyboard with the left ALT key, a single-touch
\* screen with a virtual key at x = 1 and a trackball, and writes key and
\* trackball events between its touch reports; the finger is always on the
\* virtual key; the display info can be unavailable at any call.
EnvNoDisplay ==
    [EnvTouch EXCEPT
        !.classes = [d \in DeviceIds |->
                        IF d = 1 THEN {CLASS_KEYBOARD, CLASS_TOUCHSCREEN, CLASS_TRACKBALL}
                        ELSE {}],
        !.partial = FALSE,
        !.xs = {1},
        !.keys = {AKEYCODE_ALT_LEFT},
        !.buttons = {1},
        !.dispFail = TRUE,
        !.actions = {{"DISPATCH"}}]

\* One trackball whose reports hold the button, a REL_X of a whole tick (6)
\* or less (4), a REL_Y of half a tick back (-3), or any of them, under a
\* display that can have any of the four orientations; the policy can drop
\* the frame.
EnvTrackball ==
    [EnvTouch EXCEPT
        !.classes = [d \in DeviceIds |-> IF d = 1 THEN {CLASS_TRACKBALL} ELSE {}],
        !.others = {1},
        !.abs = {0},
        !.buttons = {0, 1},
        !.rels = {TRACKBALL_MOVEMENT_THRESHOLD, 4},
        !.relYs = {-3},
        !.displays = { DisplayOk(2, 2, o) :
                         o \in {ROTATION_0, ROTATION_90, ROTATION_180, ROTATION_270} },
        !.vkDefs = [d \in DeviceIds |-> <<>>]]

\* One single-touch screen of 3 by 3 raw positions under a display of 3 by 2
\* pixels that can have any of the four orientations; no virtual keys.
EnvRotate ==
    [EnvTouch EXCEPT
        !.classes = [d \in DeviceIds |-> IF d = 1 THEN {CLASS_TOUCHSCREEN} ELSE {}],
        !.partial = FALSE,
        !.xs = {0, 1, 2}, !.ys = {0, 2},
        !.displays = { DisplayOk(3, 2, o) :
                         o \in {ROTATION_0, ROTATION_90, ROTATION_180, ROTATION_270} },
        !.actions = {{"DISPATCH"}},
        !.vkDefs = [d \in DeviceIds |-> <<>>]]

\* One multi-touch screen with a virtual key at x = 1 whose driver reports
\* a finger with the tracking id 0 at x = 0, a finger with the tracking id 1
\* on the key and a lifted contact; the policy can drop any frame and the
\* display info can be unavailable; what the dispatcher has seen is kept.
EnvGesture ==
    [EnvTouch EXCEPT
        !.contacts = { [x |-> 0, touchMajor |-> 1, hasId |-> TRUE, id |-> 0],
                       [x |-> 1, touchMajor |-> 1, hasId |-> TRUE, id |-> 1],
                       [x |-> 0, touchMajor |-> 0, hasId |-> TRUE, id |-> 0] },
        !.dispFail = TRUE,
        !.watch = TRUE]

\* One multi-touch screen with two virtual keys, at x = 1 and at x = 2, whose
\* driver reports a finger with the tracking id 0 on the first key, a finger
\* with the tracking id 1 on the second and a lifted contact; the policy can
\* drop any touch frame and lets every key through; what the dispatcher has
\* seen is kept.
EnvVirtualKeys ==
    [EnvTouch EXCEPT
        !.contacts = { [x |-> 1, touchMajor |-> 1, hasId |-> TRUE, id |-> 0],
                       [x |-> 2, touchMajor |-> 1, hasId |-> TRUE, id |-> 1],
                       [x |-> 0, touchMajor |-> 0, hasId |-> TRUE, id |-> 0] },
        !.vkDefs = [d \in DeviceIds |-> <<VirtualKeyAt(102, 2), VirtualKeyAt(158, 1)>>],
        !.keyActions = {{"DISPATCH"}},
        !.watch = TRUE]

\* One device that is a single-touch screen with a virtual key at x = 1 and
\* an alphabetic keyboard, touched on the key only; other threads ask for
\* the state of the virtual key's codes.
EnvThreads ==
    [EnvTouch EXCEPT
        !.classes = [d \in DeviceIds |->
                       IF d = 1 THEN {CLASS_TOUCHSCREEN, CLASS_KEYBOARD, CLASS_ALPHAKEY} ELSE {}],
        !.partial = FALSE,
        !.xs = {1},
        !.others = {},
        !.actions = {{"DISPATCH"}},
        !.queryScanCodes = {158}, !.queryKeyCodes = {4}]

\* A keyboard that is also a single-touch screen with a virtual key at
\* x = 1 and a trackball that moves by whole ticks, and a second keyboard;
\* each keyboard has the left ALT key and a switch, and both devices come
\* and go.
EnvCache ==
    [EnvTouch EXCEPT
        !.devs = {1, 2},
        !.classes = [d \in DeviceIds |->
                       IF d = 1 THEN {CLASS_KEYBOARD, CLASS_ALPHAKEY, CLASS_TOUCHSCREEN,
                                      CLASS_TRACKBALL}
                       ELSE {CLASS_KEYBOARD, CLASS_ALPHAKEY}],
        !.others = {1, 2},
        !.keys = {AKEYCODE_ALT_LEFT},
        !.partial = FALSE,
        !.rels = {TRACKBALL_MOVEMENT_THRESHOLD},
        !.actions = {{"DISPATCH"}}]

\* A device that is no input device (the event hub reports no class for it)
\* and a keyboard with the left ALT key; both come and go, and both send key,
\* movement, position and switch events, each closed with a SYN_REPORT.
EnvIgnored ==
    [EnvTouch EXCEPT
        !.devs = {1, 2},
        !.classes = [d \in DeviceIds |->
                       IF d = 1 THEN {} ELSE {CLASS_KEYBOARD, CLASS_ALPHAKEY}],
        !.others = {1, 2},
        !.keys = {AKEYCODE_ALT_LEFT},
        !.abs = {0}, !.syn = TRUE,
        !.vkDefs = [d \in DeviceIds |-> <<>>]]

Init == InitReader /\ env = EnvTouch

Spec == Init /\ [][Next]_vars

InitKeys == InitReader /\ env = EnvKeys

SpecKeys == InitKeys /\ [][Next]_vars

InitTwo == InitReader /\ env = EnvTwo

SpecTwo == InitTwo /\ [][Next]_vars

InitMeta == InitReader /\ env = EnvMeta

SpecMeta == InitMeta /\ [][Next]_vars

InitBurst == InitReader /\ env = EnvBurst

SpecBurst == InitBurst /\ [][Next]_vars

InitDpad == InitReader /\ env = EnvDpad

InitPress == InitReader /\ env = EnvPress

SpecPress == InitPress /\ [][Next]_vars

SpecDpad == InitDpad /\ [][Next]_vars

InitIds == InitReader /\ env = EnvIds

SpecIds == InitIds /\ [][Next]_vars

InitSync == InitReader /\ env = EnvSync

SpecSync == InitSync /\ [][Next]_vars

InitRegistry == InitReader /\ \E classes \in [DeviceIds -> RegistryClasses] : env = EnvRegistry(classes)

SpecRegistry == InitRegistry /\ [][Next]_vars

InitDrop == InitReader /\ env = EnvDrop

SpecDrop == InitDrop /\ [][Next]_vars

InitNoDisplay == InitReader /\ env = EnvNoDisplay

SpecNoDisplay == InitNoDisplay /\ [][Next]_vars

InitIgnored == InitReader /\ env = EnvIgnored

SpecIgnored == InitIgnored /\ [][Next]_vars

InitCache == InitReader /\ env = EnvCache

SpecCache == InitCache /\ [][Next]_vars

InitTrackball == InitReader /\ env = EnvTrackball

SpecTrackball == InitTrackball /\ [][Next]_vars

InitRotate == InitReader /\ env = EnvRotate

SpecRotate == InitRotate /\ [][Next]_vars

InitVirtualKeys == InitReader /\ env = EnvVirtualKeys

SpecVirtualKeys == InitVirtualKeys /\ [][Next]_vars

InitGesture == InitReader /\ env = EnvGesture

SpecGesture == InitGesture /\ [][Next]_vars

InitThreads == InitReader /\ env = EnvThreads

SpecThreads == InitThreads /\ [][NextThreads]_vars

InitSingle == InitReader /\ env = EnvSingle

SpecSingle == InitSingle /\ [][Next]_vars

(***************************************************************************)
(* What one iteration of the loop did, read from the calls it made.        *)
(***************************************************************************)
\* The touch motion events handed to the dispatcher, in order.
MotionEvents(t) == SelectSeq(t, LAMBDA e : e.op = "notifyMotion" /\ e.nature = "TOUCH")

\* The key events handed to the dispatcher, in order.
KeyEvents(t) == SelectSeq(t, LAMBDA e : e.op = "notifyKey")

Called(t, op) == \E i \in DOMAIN t : t[i].op = op

\* The iteration ran onTouchScreenChanged on a frame of device d.
FrameOf(t, d) ==
    \E i \in DOMAIN t : t[i].op = "onTouchScreenChanged" /\ t[i].deviceId = d

\* The frame got past the policy and the virtual keys did (not) consume it.
\* The raw event the iteration read from the event hub.
RawEventOf(t) == t[1].rawEvent

Handled(t, type, scanCode) ==
    /\ t # <<>> /\ t[1].op = "getEvent"
    /\ RawEventOf(t).type = type /\ RawEventOf(t).scanCode = scanCode

\* The frames handed to onTouchScreenChanged.
Frames(t) == SelectSeq(t, LAMBDA e : e.op = "onTouchScreenChanged")

Consumed(t) == \E i \in DOMAIN t : t[i].op = "consumeVirtualKeyTouches" /\ t[i].consumed
Dispatched(t) == \E i \in DOMAIN t : t[i].op = "consumeVirtualKeyTouches" /\ ~t[i].consumed

\* The pointer a motion event is about.
EventId(e) ==
    IF e.action \in {"UP", "DOWN"}
    THEN (IF Len(e.pointerIds) = 1 THEN e.pointerIds[1] ELSE NoId)
    ELSE e.actionId

EventsOf(ev, actions, id) ==
    {i \in DOMAIN ev : ev[i].action \in actions /\ EventId(ev[i]) = id}

CountOf(ev, action) == Cardinality({i \in DOMAIN ev : ev[i].action = action})

(***************************************************************************)
(* C1.                                                                     *)
(***************************************************************************)
\* One event per pointer that left and one per pointer that came, no other.
OnePerChangedId(last, cur, ev) ==
    /\ \A id \in last \ cur : Cardinality(EventsOf(ev, {"UP", "POINTER_UP"}, id)) = 1
    /\ \A id \in cur \ last : Cardinality(EventsOf(ev, {"DOWN", "POINTER_DOWN"}, id)) = 1
    /\ Len(ev) = Cardinality(last \ cur) + Cardinality(cur \ last)

\* C1 as the specification words it: for every dispatched frame of a device
\* whose idBits differ from those of the last frame, dispatchTouches emits
\* exactly one up event per id in last \ current, exactly one down event per
\* id in current \ last and no other motion event, with exactly one UP iff
\* the current idBits is empty and exactly one DOWN iff the last idBits was
\* empty.
C1_AsWorded ==
    [][\A d \in DeviceIds :
         LET last == mDevices[d].touchScreen.lastTouch.idBits
             cur == mDevices'[d].touchScreen.currentTouch.idBits
             ev == MotionEvents(trace')
         IN  (FrameOf(trace', d) /\ Dispatched(trace') /\ last # cur) =>
                /\ OnePerChangedId(last, cur, ev)
                /\ (CountOf(ev, "UP") = 1) <=> (cur = {})
                /\ (CountOf(ev, "DOWN") = 1) <=> (last = {})]_vars

\* C1, amended: for every dispatched frame of a device whose idBits differ
\* from those of the last frame, dispatchTouches emits exactly one up event
\* per id in last \ current, exactly one down event per id in current \ last
\* and no other motion event; exactly one UP is emitted iff every pointer of
\* the last frame went up (the last frame had pointers and shares no id with
\* the current one), otherwise none, and exactly one DOWN iff the current
\* frame has pointers and shares no id with the last one, otherwise none.
C1_UpsAndDowns ==
    [][\A d \in DeviceIds :
         LET last == mDevices[d].touchScreen.lastTouch.idBits
             cur == mDevices'[d].touchScreen.currentTouch.idBits
             ev == MotionEvents(trace')
         IN  (FrameOf(trace', d) /\ Dispatched(trace') /\ last # cur) =>
                /\ OnePerChangedId(last, cur, ev)
                /\ CountOf(ev, "UP") = (IF last # {} /\ last \cap cur = {} THEN 1 ELSE 0)
                /\ CountOf(ev, "DOWN") = (IF cur # {} /\ last \cap cur = {} THEN 1 ELSE 0)]_vars

\* A frame that replaced one finger by another: UP and then DOWN.
C1_Witness ==
    /\ Dispatched(trace)
    /\ \E i, j \in DOMAIN MotionEvents(trace) :
          /\ i < j
          /\ MotionEvents(trace)[i].action = "UP"
          /\ MotionEvents(trace)[j].action = "DOWN"

(***************************************************************************)
(* C2.                                                                     *)
(***************************************************************************)
Firsts(s, k) == {s[i] : i \in 1..k}

\* The coordinates an event for the pointers `ids' carries when it reads
\* them from `touch'.
CoordsFrom(display, device, touch, ids) ==
    [i \in 1..Len(ids) |->
        PointerCoordsOf(display, device.touchScreen.precalculated, PointerOfId(touch, ids[i]))]

\* C2: when the current and the last idBits differ, all up events come
\* before all down events, each group in ascending order of pointer id; the
\* active set starts as lastIdBits; the up for upId is POINTER_UP(upId) when
\* the active set without upId is non-empty and UP when it is empty; the
\* down for downId is DOWN, with the touch downTime set to the event time,
\* when the active set before adding it was empty and POINTER_DOWN(downId)
\* otherwise; up events carry the pointers of lastTouch and down events
\* those of currentTouch.
C2_UpsThenDowns ==
    [][\A d \in DeviceIds :
         LET lastTouch == mDevices[d].touchScreen.lastTouch
             currentTouch == mDevices'[d].touchScreen.currentTouch
             last == lastTouch.idBits
             cur == currentTouch.idBits
             ups == SortedSeq(last \ cur)
             downs == SortedSeq(cur \ last)
             ev == MotionEvents(trace')
         IN  (FrameOf(trace', d) /\ Dispatched(trace') /\ last # cur) =>
                /\ Len(ev) = Len(ups) + Len(downs)
                /\ \A k \in 1..Len(ups) :
                      LET before == last \ Firsts(ups, k - 1)
                          after == before \ {ups[k]}
                          e == ev[k]
                      IN  /\ after = {} => e.action = "UP"
                          /\ after # {} => e.action = "POINTER_UP" /\ e.actionId = ups[k]
                          /\ e.pointerIds = SortedSeq(before)
                          /\ e.pointerCoords =
                                CoordsFrom(mDisplay', mDevices'[d], lastTouch, e.pointerIds)
                /\ \A k \in 1..Len(downs) :
                      LET before == (last \cap cur) \cup Firsts(downs, k - 1)
                          e == ev[Len(ups) + k]
                      IN  /\ before = {} =>
                                /\ e.action = "DOWN"
                                /\ e.downTime = now'
                                /\ e.when = now'
                                /\ mDevices'[d].touchScreen.downTime = now'
                          /\ before # {} => e.action = "POINTER_DOWN" /\ e.actionId = downs[k]
                          /\ e.pointerIds = SortedSeq(before \cup {downs[k]})
                          /\ e.pointerCoords =
                                CoordsFrom(mDisplay', mDevices'[d], currentTouch, e.pointerIds)]_vars

\* Two fingers left and a third one came in one frame: POINTER_UP, UP, DOWN.
C2_Witness ==
    /\ Dispatched(trace)
    /\ Len(MotionEvents(trace)) = 3
    /\ MotionEvents(trace)[1].action = "POINTER_UP"
    /\ MotionEvents(trace)[2].action = "UP"
    /\ MotionEvents(trace)[3].action = "DOWN"
    /\ MotionEvents(trace)[1].pointerCoords[1] # MotionEvents(trace)[3].pointerCoords[1]

(***************************************************************************)
(* C3.                                                                     *)
(***************************************************************************)
\* C3: for every dispatched frame of a device whose idBits equal those of
\* the last frame, at most one motion event is dispatched, its action is
\* MOVE and it carries all current pointers with the coordinates of
\* currentTouch; a frame with pointers gets its MOVE, and when both frames
\* are empty no motion event is dispatched.
C3_Move ==
    [][\A d \in DeviceIds :
         LET lastTouch == mDevices[d].touchScreen.lastTouch
             currentTouch == mDevices'[d].touchScreen.currentTouch
             ev == MotionEvents(trace')
         IN  (FrameOf(trace', d) /\ Dispatched(trace')
                 /\ lastTouch.idBits = currentTouch.idBits) =>
                /\ Len(ev) <= 1
                /\ (lastTouch.pointerCount = 0 /\ currentTouch.pointerCount = 0) => ev = <<>>
                /\ currentTouch.idBits # {} => Len(ev) = 1
                /\ Len(ev) = 1 =>
                      /\ ev[1].action = "MOVE"
                      /\ ev[1].pointerIds = SortedSeq(currentTouch.idBits)
                      /\ ev[1].pointerCoords =
                            CoordsFrom(mDisplay', mDevices'[d], currentTouch, ev[1].pointerIds)]_vars

\* A move of two fingers.
C3_Witness ==
    /\ Dispatched(trace)
    /\ Len(MotionEvents(trace)) = 1
    /\ MotionEvents(trace)[1].action = "MOVE"
    /\ Len(MotionEvents(trace)[1].pointerIds) = 2
    /\ MotionEvents(trace)[1].pointerCoords[1] # MotionEvents(trace)[1].pointerCoords[2]

(***************************************************************************)
(* C4.                                                                     *)
(***************************************************************************)
WellFormedTouch(touch) ==
    /\ touch.pointerCount = Cardinality(touch.idBits)
    /\ \A id \in touch.idBits :
          /\ touch.idToIndex[id] < touch.pointerCount
          /\ touch.idToIndex[id] < Len(touch.pointers)
          /\ PointerAt(touch, touch.idToIndex[id]).id = id

\* C4: every frame that single-touch assembly or multi-touch assembly with
\* the driver's ids adopted (havePointerIds true) hands to
\* onTouchScreenChanged has pointerCount = popcount(idBits), and for every id
\* in idBits, idToIndex[id] < pointerCount and the pointer at that index has
\* that id.
C4_FramesWellFormed ==
    \A i \in DOMAIN trace :
        (trace[i].op = "onTouchScreenChanged" /\ trace[i].havePointerIds)
            => WellFormedTouch(trace[i].currentTouch)

(***************************************************************************)
(* C5, C6, C7, C8, C10: the virtual keys.                                  *)
(***************************************************************************)
InterceptKeys(t) == SelectSeq(t, LAMBDA e : e.op = "interceptKey")

NotDropped(t) == Consumed(t) \/ Dispatched(t)

\* The key recorded in vk went to dispatchVirtualKey: the policy's
\* interceptKey saw it, and the dispatcher got it if the answer has DISPATCH.
VirtualKeySent(t, d, action, flags, vk) ==
    LET ik == InterceptKeys(t)
        ke == KeyEvents(t)
    IN  /\ Len(ik) = 1
        /\ ik[1].deviceId = d
        /\ ik[1].down = (action = "KEY_DOWN")
        /\ ik[1].keyCode = vk.keyCode
        /\ ik[1].scanCode = vk.scanCode
        /\ IF "DISPATCH" \in ik[1].actions
           THEN /\ Len(ke) = 1
                /\ ke[1].deviceId = d
                /\ ke[1].action = action
                /\ ke[1].flags = flags
                /\ ke[1].keyCode = vk.keyCode
                /\ ke[1].scanCode = vk.scanCode
                /\ ke[1].downTime = vk.downTime
           ELSE ke = <<>>

NoVirtualKeySent(t) == InterceptKeys(t) = <<>> /\ KeyEvents(t) = <<>>

\* C5: with the virtual-key status NONE or UP, a frame is consumed iff the
\* last frame had no pointer, the current frame has exactly one and the hit
\* test finds a virtual key; then the status becomes DOWN, the key's keyCode
\* and scanCode and the event time (downTime) are recorded, the policy's
\* virtualKeyDownFeedback is invoked and a key-down with the flags
\* FROM_SYSTEM | VIRTUAL_HARD_KEY goes to dispatchVirtualKey (and from there
\* to the dispatcher, if the policy's interceptKey lets it); in every other
\* case the status is unchanged and the frame is not consumed.
C5_Entry ==
    [][\A d \in DeviceIds :
         LET vk == mDevices[d].touchScreen.currentVirtualKey
             ts == mDevices'[d].touchScreen
             hit == findVirtualKeyHit(ts)
             entry == /\ mDevices[d].touchScreen.lastTouch.pointerCount = 0
                      /\ ts.currentTouch.pointerCount = 1
                      /\ hit # <<>>
         IN  (FrameOf(trace', d) /\ NotDropped(trace')
                 /\ vk.status \in {STATUS_NONE, STATUS_UP}) =>
                /\ Consumed(trace') <=> entry
                /\ entry =>
                      /\ ts.currentVirtualKey =
                            [status |-> STATUS_DOWN, downTime |-> now',
                             keyCode |-> hit[1].keyCode, scanCode |-> hit[1].scanCode]
                      /\ Called(trace', "virtualKeyDownFeedback")
                      /\ VirtualKeySent(trace', d, "KEY_DOWN",
                                        {"FROM_SYSTEM", "VIRTUAL_HARD_KEY"}, ts.currentVirtualKey)
                /\ ~entry =>
                      /\ ts.currentVirtualKey = vk
                      /\ NoVirtualKeySent(trace')
                      /\ ~Called(trace', "virtualKeyDownFeedback")]_vars

\* A finger came down on a virtual key and the key-down reached the dispatcher.
C5_Witness ==
    /\ FrameOf(trace, 1) /\ Consumed(trace)
    /\ mDevices[1].touchScreen.currentVirtualKey.status = STATUS_DOWN
    /\ Called(trace, "virtualKeyDownFeedback")
    /\ Len(KeyEvents(trace)) = 1
    /\ KeyEvents(trace)[1].action = "KEY_DOWN"

\* C6: with the status DOWN, a frame with no pointer moves the status to UP
\* and sends a key-up with FROM_SYSTEM | VIRTUAL_HARD_KEY; a frame with
\* exactly one pointer that hits the active key keeps the status DOWN and
\* sends nothing; every other frame moves the status to CANCELED and sends a
\* key-up with FROM_SYSTEM | VIRTUAL_HARD_KEY | CANCELED; the key-up carries
\* the keyCode, scanCode and downTime recorded at the key-down; all three
\* cases consume the frame.
C6_ExitsFromDown ==
    [][\A d \in DeviceIds :
         LET vk == mDevices[d].touchScreen.currentVirtualKey
             ts == mDevices'[d].touchScreen
             hit == findVirtualKeyHit(ts)
         IN  (FrameOf(trace', d) /\ NotDropped(trace') /\ vk.status = STATUS_DOWN) =>
                /\ Consumed(trace')
                /\ MotionEvents(trace') = <<>>
                /\ ts.currentVirtualKey.keyCode = vk.keyCode
                /\ ts.currentVirtualKey.scanCode = vk.scanCode
                /\ ts.currentVirtualKey.downTime = vk.downTime
                /\ IF ts.currentTouch.pointerCount = 0
                   THEN /\ ts.currentVirtualKey.status = STATUS_UP
                        /\ VirtualKeySent(trace', d, "KEY_UP",
                                          {"FROM_SYSTEM", "VIRTUAL_HARD_KEY"}, vk)
                   ELSE IF /\ ts.currentTouch.pointerCount = 1
                           /\ hit # <<>>
                           /\ hit[1].keyCode = vk.keyCode
                   THEN /\ ts.currentVirtualKey.status = STATUS_DOWN
                        /\ NoVirtualKeySent(trace')
                   ELSE /\ ts.currentVirtualKey.status = STATUS_CANCELED
                        /\ VirtualKeySent(trace', d, "KEY_UP",
                                          {"FROM_SYSTEM", "VIRTUAL_HARD_KEY", "CANCELED"}, vk)]_vars

\* The finger slid from the key it pressed onto the other key: canceled.
C6_Witness ==
    /\ FrameOf(trace, 1) /\ Consumed(trace)
    /\ mDevices[1].touchScreen.currentVirtualKey.status = STATUS_CANCELED
    /\ mDevices[1].touchScreen.currentTouch.pointerCount = 1
    /\ findVirtualKeyHit(mDevices[1].touchScreen) # <<>>
    /\ Len(KeyEvents(trace)) = 1
    /\ KeyEvents(trace)[1].action = "KEY_UP"
    /\ "CANCELED" \in KeyEvents(trace)[1].flags

\* C7: with the status CANCELED, a frame with at least one pointer leaves
\* the status CANCELED and a frame with no pointer moves it to UP; both are
\* consumed and neither a key event nor a motion event is dispatched; the
\* status of a device leaves CANCELED only by a frame with no pointer.
C7_Canceled ==
    [][\A d \in DeviceIds :
         (d \in DOMAIN mDevices /\ d \in DOMAIN mDevices'
             /\ mDevices[d].touchScreen.currentVirtualKey.status = STATUS_CANCELED) =>
            LET ts == mDevices'[d].touchScreen
            IN  /\ (FrameOf(trace', d) /\ NotDropped(trace')) =>
                      /\ Consumed(trace')
                      /\ NoVirtualKeySent(trace')
                      /\ MotionEvents(trace') = <<>>
                      /\ ts.currentTouch.pointerCount >= 1 =>
                            ts.currentVirtualKey.status = STATUS_CANCELED
                      /\ ts.currentTouch.pointerCount = 0 =>
                            ts.currentVirtualKey.status = STATUS_UP
                /\ ts.currentVirtualKey.status # STATUS_CANCELED =>
                      /\ FrameOf(trace', d) /\ NotDropped(trace')
                      /\ ts.currentTouch.pointerCount = 0
                      /\ ts.currentVirtualKey.status = STATUS_UP]_vars

\* A frame with a finger down, swallowed while the key was already canceled.
C7_Witness ==
    /\ FrameOf(trace, 1) /\ Consumed(trace)
    /\ mDevices[1].touchScreen.currentVirtualKey.status = STATUS_CANCELED
    /\ mDevices[1].touchScreen.currentTouch.pointerCount >= 1
    /\ NoVirtualKeySent(trace)

\* C8: a frame that the virtual keys consume gets no touch motion event;
\* dispatchTouches runs for frames that are not consumed only; either way the
\* frame becomes lastTouch (the frame as it was before the averaging filter
\* moved its coordinates).
C8_ConsumedOrDispatched ==
    [][\A d \in DeviceIds :
         FrameOf(trace', d) =>
            LET ts == mDevices'[d].touchScreen
            IN  /\ Consumed(trace') => MotionEvents(trace') = <<>> /\ ~Dispatched(trace')
                /\ MotionEvents(trace') # <<>> => Dispatched(trace')
                /\ NotDropped(trace') =>
                      /\ ts.lastTouch.pointerCount = ts.currentTouch.pointerCount
                      /\ ts.lastTouch.idBits = ts.currentTouch.idBits
                      /\ ts.lastTouch.idToIndex = ts.currentTouch.idToIndex
                      /\ ~ts.parameters.useAveragingTouchFilter =>
                            ts.lastTouch = ts.currentTouch]_vars

\* A consumed frame with two fingers is the last frame now.
C8_Witness ==
    /\ FrameOf(trace, 1) /\ Consumed(trace)
    /\ mDevices[1].touchScreen.currentTouch.pointerCount = 2
    /\ mDevices[1].touchScreen.lastTouch = mDevices[1].touchScreen.currentTouch
    /\ MotionEvents(trace) = <<>>

(***************************************************************************)
(* C9, C10.                                                                *)
(***************************************************************************)
\* The exported virtual key names a key that is down, or no key.
ExportedIsCurrent(devices, exported) ==
    LET down == {d \in DOMAIN devices :
                    devices[d].touchScreen.currentVirtualKey.status = STATUS_DOWN}
    IN  /\ exported.virtualKeyCode # -1 <=> down # {}
        /\ down # {} =>
              \E d \in down :
                  /\ exported.virtualKeyCode = devices[d].touchScreen.currentVirtualKey.keyCode
                  /\ exported.virtualScanCode = devices[d].touchScreen.currentVirtualKey.scanCode

\* C9: after construction and after every iteration of the loop, the
\* exported virtual key code differs from -1 exactly when the virtual-key
\* status of some registered device is DOWN, and then the exported key code
\* and scan code are those of a device in DOWN.
C9_ExportedVirtualKey == ExportedIsCurrent(mDevices, mExported)

\* Two keys were down; the second device let go and the first one's key is
\* the exported one.
C9_Witness ==
    /\ DOMAIN mDevices = {1, 2}
    /\ mDevices[1].touchScreen.currentVirtualKey.status = STATUS_DOWN
    /\ mDevices[2].touchScreen.currentVirtualKey.status = STATUS_UP
    /\ mExported.virtualKeyCode = mDevices[1].touchScreen.currentVirtualKey.keyCode
    /\ Len(InterceptKeys(trace)) = 1
    /\ InterceptKeys(trace)[1].deviceId = 2
    /\ ~InterceptKeys(trace)[1].down

\* A change of status that dispatchVirtualKey goes with.
KeyTransition(from, to) ==
    \/ from \in {STATUS_NONE, STATUS_UP} /\ to = STATUS_DOWN
    \/ from = STATUS_DOWN /\ to \in {STATUS_UP, STATUS_CANCELED}

\* C10: every virtual-key transition (to DOWN, from DOWN to UP or CANCELED)
\* consults the policy's interceptKey, once; when the answer lacks DISPATCH,
\* the transition and the refresh of the exported state have taken place and
\* the frame is consumed, but no notifyKey reaches the dispatcher; a
\* notifyKey is sent only with an answer that has DISPATCH.
C10_PolicyGatesVirtualKey ==
    [][\A d \in DeviceIds :
         LET ik == InterceptKeys(trace')
             ke == KeyEvents(trace')
         IN  (FrameOf(trace', d) /\ NotDropped(trace')) =>
                /\ Len(ik) <= 1
                /\ KeyTransition(mDevices[d].touchScreen.currentVirtualKey.status,
                                 mDevices'[d].touchScreen.currentVirtualKey.status)
                      <=> Len(ik) = 1
                /\ Len(ik) = 0 => ke = <<>>
                /\ Len(ik) = 1 =>
                      /\ Consumed(trace')
                      /\ ExportedIsCurrent(mDevices', mExported')
                      /\ Len(ke) = (IF "DISPATCH" \in ik[1].actions THEN 1 ELSE 0)]_vars

\* The policy withheld a key-down: the key is down and exported, the frame
\* consumed, the dispatcher got nothing.
C10_Witness ==
    /\ FrameOf(trace, 1) /\ Consumed(trace)
    /\ Len(InterceptKeys(trace)) = 1
    /\ InterceptKeys(trace)[1].actions = {}
    /\ mDevices[1].touchScreen.currentVirtualKey.status = STATUS_DOWN
    /\ mExported.virtualKeyCode = mDevices[1].touchScreen.currentVirtualKey.keyCode
    /\ KeyEvents(trace) = <<>>

(***************************************************************************)
(* C11: a finger comes down on a virtual key, drifts off and lifts.        *)
(***************************************************************************)
\* The first pointer of the frame lies in the hit rectangle of a virtual key
\* of the device that has the key code.
InsideKey(ts, keyCode) ==
    /\ ts.currentTouch.pointerCount >= 1
    /\ \E i \in DOMAIN ts.virtualKeys :
          /\ ts.virtualKeys[i].keyCode = keyCode
          /\ FirstKeyHit(<<ts.virtualKeys[i]>>, 1,
                         ts.currentTouch.pointers[1].x, ts.currentTouch.pointers[1].y) # <<>>

\* The three frames of the scenario, each as a step from the state the frame
\* before it left; `rest' is the status the third frame ends in.
DriftOff(rest) ==
    \A d \in DeviceIds :
         LET vk == mDevices[d].touchScreen.currentVirtualKey
             ts == mDevices'[d].touchScreen
             hit == findVirtualKeyHit(ts)
         IN  (FrameOf(trace', d) /\ NotDropped(trace')) =>
                /\ (/\ vk.status = STATUS_NONE
                    /\ mDevices[d].touchScreen.lastTouch.pointerCount = 0
                    /\ ts.currentTouch.pointerCount = 1
                    /\ hit # <<>>) =>
                      /\ ts.currentVirtualKey.status = STATUS_DOWN
                      /\ ts.currentVirtualKey.keyCode = hit[1].keyCode
                      /\ VirtualKeySent(trace', d, "KEY_DOWN",
                                        {"FROM_SYSTEM", "VIRTUAL_HARD_KEY"}, ts.currentVirtualKey)
                /\ (/\ vk.status = STATUS_DOWN
                    /\ ts.currentTouch.pointerCount = 1
                    /\ ~InsideKey(ts, vk.keyCode)) =>
                      /\ ts.currentVirtualKey.status = STATUS_CANCELED
                      /\ VirtualKeySent(trace', d, "KEY_UP",
                                        {"FROM_SYSTEM", "VIRTUAL_HARD_KEY", "CANCELED"}, vk)
                /\ (/\ vk.status = STATUS_CANCELED
                    /\ ts.currentTouch.pointerCount = 0) =>
                      /\ ts.currentVirtualKey.status = rest
                      /\ NoVirtualKeySent(trace')

\* C11 as the specification words it: a first frame with one pointer inside
\* the hit rectangle of a virtual key sends key-down for that key; a second
\* frame with the pointer outside the rectangle sends key-up with the
\* CANCELED flag; a third frame with no pointer returns the virtual-key
\* status of the device to NONE.
C11_AsWorded == [][DriftOff(STATUS_NONE)]_vars

\* C11, amended: as worded, except that the third frame, the one with no
\* pointer, moves the virtual-key status from CANCELED to UP.
C11_DriftOff == [][DriftOff(STATUS_UP)]_vars

\* The third frame of the scenario: no pointer and no key event, the status
\* is UP (a frame with no pointer that ends the status DOWN sends a key-up).
C11_Witness ==
    /\ FrameOf(trace, 1) /\ Consumed(trace)
    /\ mDevices[1].touchScreen.currentTouch.pointerCount = 0
    /\ mDevices[1].touchScreen.currentVirtualKey.status = STATUS_UP
    /\ NoVirtualKeySent(trace)

(***************************************************************************)
(* C12: the meta state of a keyboard.                                      *)
(***************************************************************************)
MetaKeys ==
    {AKEYCODE_ALT_LEFT, AKEYCODE_ALT_RIGHT, AKEYCODE_SHIFT_LEFT, AKEYCODE_SHIFT_RIGHT,
     AKEYCODE_SYM}

CombinedBitsAgree(metaState) ==
    /\ (metaState \cap {"META_ALT_LEFT_ON", "META_ALT_RIGHT_ON"} # {})
          <=> "META_ALT_ON" \in metaState
    /\ (metaState \cap {"META_SHIFT_LEFT_ON", "META_SHIFT_RIGHT_ON"} # {})
          <=> "META_SHIFT_ON" \in metaState

\* C12: after every iteration of the loop, the meta state of every keyboard
\* has META_ALT_ON exactly when it has META_ALT_LEFT_ON or META_ALT_RIGHT_ON
\* and META_SHIFT_ON exactly when it has META_SHIFT_LEFT_ON or
\* META_SHIFT_RIGHT_ON (a device starts with meta state 0); a key other than
\* ALT_LEFT, ALT_RIGHT, SHIFT_LEFT, SHIFT_RIGHT and SYM leaves the meta state
\* as it was.
C12_MetaState ==
    [][\A d \in DOMAIN mDevices' :
         isKeyboard(mDevices'[d]) =>
            /\ CombinedBitsAgree(mDevices'[d].keyboard.metaState)
            /\ \A i \in DOMAIN InterceptKeys(trace') :
                  (d \in DOMAIN mDevices /\ InterceptKeys(trace')[i].deviceId = d
                      /\ InterceptKeys(trace')[i].keyCode \notin MetaKeys) =>
                     mDevices'[d].keyboard.metaState = mDevices[d].keyboard.metaState]_vars

\* Both ALT keys and a SHIFT key were down and the left ALT key went up: ALT
\* is still on.
C12_Witness ==
    /\ 1 \in DOMAIN mDevices
    /\ mDevices[1].keyboard.metaState =
          {"META_ALT_RIGHT_ON", "META_ALT_ON", "META_SHIFT_LEFT_ON", "META_SHIFT_ON"}
    /\ Len(InterceptKeys(trace)) = 1
    /\ InterceptKeys(trace)[1].keyCode = AKEYCODE_ALT_LEFT
    /\ ~InterceptKeys(trace)[1].down

(***************************************************************************)
(* C13: the multi-touch accumulator has room for MAX_POINTERS contacts.    *)
(***************************************************************************)
\* The iteration handled an event for the multi-touch screen d.
MultiTouchEvent(d) ==
    /\ trace' # <<>> /\ trace'[1].op = "getEvent"
    /\ RawEventOf(trace').deviceId = d
    /\ d \in DOMAIN mDevices /\ d \in DOMAIN mDevices'
    /\ ~mDevices[d].ignored /\ isMultiTouchScreen(mDevices[d])

MTFieldOf(scanCode) ==
    CASE scanCode = ABS_MT_POSITION_X -> "ABS_MT_POSITION_X"
      [] scanCode = ABS_MT_POSITION_Y -> "ABS_MT_POSITION_Y"
      [] scanCode = ABS_MT_TOUCH_MAJOR -> "ABS_MT_TOUCH_MAJOR"
      [] scanCode = ABS_MT_WIDTH_MAJOR -> "ABS_MT_WIDTH_MAJOR"
      [] scanCode = ABS_MT_TRACKING_ID -> "ABS_MT_TRACKING_ID"
      [] OTHER -> "NONE"

\* C13: after every raw event the pointerCount of a multi-touch accumulator
\* is at most MAX_POINTERS; an absolute-axis event writes the slot at index
\* pointerCount and a SYN_MT_REPORT clears the slot at the new pointerCount,
\* both at most MAX_POINTERS; a SYN_MT_REPORT advances the count by one when
\* the fields of the current slot are non-zero and the count is below
\* MAX_POINTERS, and leaves it otherwise, so that contacts past the
\* MAX_POINTERS-th of a frame are dropped; every touch frame and every
\* notifyMotion carries at most MAX_POINTERS pointers.
C13_PointerCountBounded ==
    [][/\ \A d \in DOMAIN mDevices' :
            /\ mDevices'[d].multiTouchScreen.accumulator.pointerCount <= MAX_POINTERS
            /\ DOMAIN mDevices'[d].multiTouchScreen.accumulator.pointers = 0..MAX_POINTERS
       /\ \A d \in DeviceIds :
            MultiTouchEvent(d) =>
               LET acc == mDevices[d].multiTouchScreen.accumulator
                   acc2 == mDevices'[d].multiTouchScreen.accumulator
                   e == RawEventOf(trace')
               IN  /\ (e.type = "EV_ABS" /\ MTFieldOf(e.scanCode) # "NONE") =>
                         /\ acc2.pointerCount = acc.pointerCount
                         /\ acc.pointerCount <= MAX_POINTERS
                         /\ MTFieldOf(e.scanCode) \in acc2.pointers[acc.pointerCount].fields
                         /\ \A i \in 0..MAX_POINTERS :
                               i # acc.pointerCount => acc2.pointers[i] = acc.pointers[i]
                   /\ (e.type = "EV_SYN" /\ e.scanCode = SYN_MT_REPORT) =>
                         /\ acc2.pointerCount =
                               (IF acc.pointers[acc.pointerCount].fields # {}
                                   /\ acc.pointerCount < MAX_POINTERS
                                THEN acc.pointerCount + 1 ELSE acc.pointerCount)
                         /\ acc2.pointers[acc2.pointerCount].fields = {}
                         /\ \A i \in 0..MAX_POINTERS :
                               i # acc2.pointerCount => acc2.pointers[i] = acc.pointers[i]
       /\ \A i \in DOMAIN Frames(trace') :
            /\ Frames(trace')[i].currentTouch.pointerCount <= MAX_POINTERS
            /\ Len(Frames(trace')[i].currentTouch.pointers) <= MAX_POINTERS
       /\ \A i \in DOMAIN MotionEvents(trace') :
            Len(MotionEvents(trace')[i].pointerIds) <= MAX_POINTERS]_vars

\* The driver has reported MAX_POINTERS contacts and written one more: its
\* fields wait in the last slot for the SYN_MT_REPORT that drops them.
C13_Witness ==
    /\ 1 \in DOMAIN mDevices
    /\ mDevices[1].multiTouchScreen.accumulator.pointerCount = MAX_POINTERS
    /\ mDevices[1].multiTouchScreen.accumulator.pointers[MAX_POINTERS].fields # {}
    /\ pending # <<>>
    /\ Head(pending).scanCode = SYN_MT_REPORT

(***************************************************************************)
(* C14: the pressure of the pointers of a frame.                           *)
(***************************************************************************)
\* C14: every pointer of every touch frame that multi-touch or single-touch
\* assembly hands to onTouchScreenChanged has a pressure above zero.
C14_PressurePositive ==
    \A i \in DOMAIN Frames(trace) :
        \A k \in DOMAIN Frames(trace)[i].currentTouch.pointers :
            Frames(trace)[i].currentTouch.pointers[k].pressure > 0

(***************************************************************************)
(* C15: accumulator slots that lack a required field.                      *)
(***************************************************************************)
\* The slots of a multi-touch accumulator in which all four required fields
\* are set.
CompleteSlots(acc) ==
    {i \in 0..(acc.pointerCount - 1) : REQUIRED_FIELDS \subseteq acc.pointers[i].fields}

\* C15: multi-touch assembly drops every accumulator slot that lacks one of
\* the fields position-x, position-y, touch-major and width-major: the frame
\* it hands on has no more pointers than the accumulator has slots with all
\* four fields set.
C15_RequiredFields ==
    [][\A d \in DeviceIds :
         (Handled(trace', "EV_SYN", SYN_REPORT) /\ RawEventOf(trace').deviceId = d
             /\ d \in DOMAIN mDevices /\ isMultiTouchScreen(mDevices[d])) =>
            \A i \in DOMAIN Frames(trace') :
                Frames(trace')[i].currentTouch.pointerCount
                    <= Cardinality(CompleteSlots(mDevices[d].multiTouchScreen.accumulator))]_vars

(***************************************************************************)
(* C16: the tracking ids of the driver.                                    *)
(***************************************************************************)
\* The slots of a multi-touch accumulator that make a pointer of the frame
\* (their touch-major was written and is above zero), in order.
AcceptedSlots(acc) ==
    SelectSeq([i \in 1..acc.pointerCount |-> acc.pointers[i - 1]],
              LAMBDA slot : "ABS_MT_TOUCH_MAJOR" \in slot.fields /\ slot.absMTTouchMajor > 0)

UsableId(slot) ==
    /\ "ABS_MT_TRACKING_ID" \in slot.fields
    /\ slot.absMTTrackingId \in 0..MAX_POINTER_ID

\* C16: multi-touch assembly hands on its frame with havePointerIds true,
\* and each pointer's id equal to its slot's tracking id, iff every accepted
\* slot carries a tracking id and every such id is within 0..MAX_POINTER_ID;
\* if an accepted slot has no tracking id or one outside that range
\* (negative ones included) havePointerIds is false, the ids of the frame
\* are worked out before dispatch (every pointer has an id of its own within
\* 0..MAX_POINTER_ID), and no motion event carries a pointer id outside
\* 0..MAX_POINTER_ID.
C16_DriverIds ==
    [][\A d \in DeviceIds :
         (Handled(trace', "EV_SYN", SYN_REPORT) /\ RawEventOf(trace').deviceId = d
             /\ d \in DOMAIN mDevices /\ isMultiTouchScreen(mDevices[d])
             /\ FrameOf(trace', d)) =>
            LET slots == AcceptedSlots(mDevices[d].multiTouchScreen.accumulator)
                frame == Frames(trace')[1]
                touch == frame.currentTouch
                final == mDevices'[d].touchScreen.currentTouch
            IN  /\ Len(Frames(trace')) = 1
                /\ touch.pointerCount = Len(slots)
                /\ frame.havePointerIds <=> \A i \in DOMAIN slots : UsableId(slots[i])
                /\ frame.havePointerIds =>
                      /\ \A i \in DOMAIN slots : touch.pointers[i].id = slots[i].absMTTrackingId
                      /\ touch.idBits = {slots[i].absMTTrackingId : i \in DOMAIN slots}
                      /\ NotDropped(trace') => final = touch
                /\ (~frame.havePointerIds /\ NotDropped(trace')) =>
                      /\ final.pointerCount = touch.pointerCount
                      /\ final.idBits \subseteq 0..MAX_POINTER_ID
                      /\ WellFormedTouch(final)
                /\ \A i \in DOMAIN MotionEvents(trace') :
                      \A k \in DOMAIN MotionEvents(trace')[i].pointerIds :
                          MotionEvents(trace')[i].pointerIds[k] \in 0..MAX_POINTER_ID]_vars

\* A frame of two pointers whose first slot had a usable id and whose second
\* had not: the ids were worked out again and the frame was dispatched.
C16_Witness ==
    /\ Len(Frames(trace)) = 1
    /\ ~Frames(trace)[1].havePointerIds
    /\ Frames(trace)[1].currentTouch.pointerCount = 2
    /\ Frames(trace)[1].currentTouch.pointers[1].id # NoId
    /\ Frames(trace)[1].currentTouch.pointers[2].id = NoId
    /\ Dispatched(trace)
    /\ MotionEvents(trace) # <<>>
    /\ WellFormedTouch(mDevices[1].touchScreen.currentTouch)

(***************************************************************************)
(* C17: single-touch assembly.                                             *)
(***************************************************************************)
Sticky(fields, field, new, old) == IF field \in fields THEN new ELSE old

\* C17: at each committed frame of a single-touch screen, the fields set in
\* the accumulator since the last frame sync overwrite the committed down,
\* x, y, pressure and size, and the others keep their committed value; the
\* frame has one pointer, with id 0 and the committed values, when down is
\* true and no pointer otherwise; a dispatched frame gives DOWN at the
\* committed position when the finger came down, MOVE at the committed
\* position while it stays down, and UP at the position of the last frame
\* when it is released.
C17_StickySingleTouch ==
    [][\A d \in DeviceIds :
         (Handled(trace', "EV_SYN", SYN_REPORT) /\ RawEventOf(trace').deviceId = d
             /\ d \in DOMAIN mDevices /\ isSingleTouchScreen(mDevices[d])
             /\ FrameOf(trace', d)) =>
            LET acc == mDevices[d].singleTouchScreen.accumulator
                old == mDevices[d].singleTouchScreen.current
                new == mDevices'[d].singleTouchScreen.current
                touch == Frames(trace')[1].currentTouch
                lastTouch == mDevices[d].touchScreen.lastTouch
                ev == MotionEvents(trace')
            IN  /\ new.down = Sticky(acc.fields, "BTN_TOUCH", acc.btnTouch, old.down)
                /\ new.x = Sticky(acc.fields, "ABS_X", acc.absX, old.x)
                /\ new.y = Sticky(acc.fields, "ABS_Y", acc.absY, old.y)
                /\ new.pressure = Sticky(acc.fields, "ABS_PRESSURE", acc.absPressure, old.pressure)
                /\ new.size = Sticky(acc.fields, "ABS_TOOL_WIDTH", acc.absToolWidth, old.size)
                /\ Frames(trace')[1].havePointerIds
                /\ touch.pointerCount = (IF new.down THEN 1 ELSE 0)
                /\ touch.idBits = (IF new.down THEN {0} ELSE {})
                /\ touch.pointers =
                      (IF new.down
                       THEN <<[id |-> 0, x |-> new.x, y |-> new.y,
                               pressure |-> new.pressure, size |-> new.size]>>
                       ELSE <<>>)
                /\ Dispatched(trace') =>
                      /\ Len(ev) = (IF new.down \/ lastTouch.pointerCount = 1 THEN 1 ELSE 0)
                      /\ Len(ev) = 1 =>
                            /\ ev[1].pointerIds = <<0>>
                            /\ ev[1].action =
                                  (IF ~new.down THEN "UP"
                                   ELSE IF lastTouch.pointerCount = 0 THEN "DOWN" ELSE "MOVE")
                            /\ ev[1].pointerCoords =
                                  CoordsFrom(mDisplay', mDevices'[d],
                                             IF new.down THEN touch ELSE lastTouch, <<0>>)]_vars

\* The finger was released by a report that moved x as well: the UP is at
\* the position of the last frame, the committed x is the new one.
C17_Witness ==
    /\ 1 \in DOMAIN mDevices
    /\ Dispatched(trace)
    /\ Len(MotionEvents(trace)) = 1
    /\ MotionEvents(trace)[1].action = "UP"
    /\ MotionEvents(trace)[1].pointerCoords[1].x = FInt(1)
    /\ MotionEvents(trace)[1].pointerCoords[1].y = FInt(1)
    /\ mDevices[1].singleTouchScreen.current =
          [down |-> FALSE, x |-> 0, y |-> 1, pressure |-> 1, size |-> 1]

(***************************************************************************)
(* C18: a frame sync with nothing to commit.                               *)
(***************************************************************************)
\* No raw event was recorded in an accumulator of the device since they
\* were cleared.
Clean(device) ==
    /\ ~MTIsDirty(device.multiTouchScreen.accumulator)
    /\ ~STIsDirty(device.singleTouchScreen.accumulator)
    /\ ~TBIsDirty(device.trackball.accumulator)

\* C18: a SYN_REPORT for a device none of whose accumulators recorded an
\* event since the last SYN_REPORT calls no assembler, asks the policy
\* nothing, dispatches nothing and changes no state of the reader; after
\* every SYN_REPORT the accumulators of the device are clean.
C18_SyncIdempotent ==
    [][\A d \in DeviceIds :
         (Handled(trace', "EV_SYN", SYN_REPORT) /\ RawEventOf(trace').deviceId = d
             /\ d \in DOMAIN mDevices /\ ~mDevices[d].ignored) =>
            /\ d \in DOMAIN mDevices'
            /\ Clean(mDevices'[d])
            /\ Clean(mDevices[d]) =>
                  /\ Len(trace') = 1
                  /\ mDevices' = mDevices
                  /\ mDisplay' = mDisplay
                  /\ mGlobalMetaState' = mGlobalMetaState
                  /\ mExported' = mExported]_vars

\* A SYN_REPORT with nothing to commit came while a finger was down on the
\* multi-touch screen: no call but getEvent, the finger is still down.
C18_Witness ==
    /\ Len(trace) = 1
    /\ Handled(trace, "EV_SYN", SYN_REPORT)
    /\ RawEventOf(trace).deviceId = 1
    /\ 1 \in DOMAIN mDevices
    /\ Clean(mDevices[1])
    /\ mDevices[1].touchScreen.lastTouch.pointerCount = 1

(***************************************************************************)
(* C19: the DPAD under a rotated display.                                  *)
(***************************************************************************)
\* The DPAD key codes, counter-clockwise.
DpadCycle == <<AKEYCODE_DPAD_DOWN, AKEYCODE_DPAD_RIGHT, AKEYCODE_DPAD_UP, AKEYCODE_DPAD_LEFT>>

DpadCodes == {DpadCycle[i] : i \in 1..4}

\* The key code `steps' places after keyCode on the cycle.
StepsAlong(keyCode, steps) ==
    LET i == CHOOSE j \in 1..4 : DpadCycle[j] = keyCode
    IN  DpadCycle[((i - 1 + steps) % 4) + 1]

KeyCodes == 0..AKEYCODE_SYM

Orientations == {ROTATION_0, ROTATION_90, ROTATION_180, ROTATION_270}

\* The iteration ran onKey for a key of the keyboard d and had display info.
KeyOf(d) ==
    /\ Handled(trace', "EV_KEY", RawEventOf(trace').scanCode)
    /\ RawEventOf(trace').deviceId = d
    /\ d \in DOMAIN mDevices /\ ~mDevices[d].ignored /\ isKeyboard(mDevices[d])
    /\ \E i \in DOMAIN trace' : trace'[i].op = "getDisplayInfo" /\ trace'[i].ok

\* C19: rotateKeyCode moves a DPAD key code along the counter-clockwise
\* cycle DOWN, RIGHT, UP, LEFT by 0, 1, 2, 3 places for the orientations 0,
\* 90, 180, 270 degrees, leaves every other key code as it is, and for each
\* orientation maps the four DPAD codes onto the four DPAD codes one to one;
\* the key code onKey shows the policy is the raw one rotated by the
\* orientation of the display.
C19_RotateKeyCode ==
    [][/\ \A o \in Orientations :
            /\ \A k \in DpadCodes : rotateKeyCode(k, o) = StepsAlong(k, o)
            /\ \A k \in KeyCodes \ DpadCodes : rotateKeyCode(k, o) = k
            /\ {rotateKeyCode(k, o) : k \in DpadCodes} = DpadCodes
            /\ \A k1, k2 \in DpadCodes :
                  rotateKeyCode(k1, o) = rotateKeyCode(k2, o) => k1 = k2
       /\ rotateKeyCode(AKEYCODE_DPAD_DOWN, ROTATION_0) = AKEYCODE_DPAD_DOWN
       /\ rotateKeyCode(AKEYCODE_DPAD_DOWN, ROTATION_90) = AKEYCODE_DPAD_RIGHT
       /\ rotateKeyCode(AKEYCODE_DPAD_DOWN, ROTATION_180) = AKEYCODE_DPAD_UP
       /\ rotateKeyCode(AKEYCODE_DPAD_DOWN, ROTATION_270) = AKEYCODE_DPAD_LEFT
       /\ \A d \in DeviceIds :
            KeyOf(d) =>
               LET k == RawEventOf(trace').keyCode
                   ik == InterceptKeys(trace')
               IN  /\ Len(ik) = 1
                   /\ mDisplay'.o \in Orientations
                   /\ ik[1].keyCode =
                         (IF k \in DpadCodes THEN StepsAlong(k, mDisplay'.o) ELSE k)]_vars

\* DPAD_LEFT was pressed under a display turned by 270 degrees: the policy
\* saw DPAD_UP.
C19_Witness ==
    /\ Handled(trace, "EV_KEY", AKEYCODE_DPAD_LEFT)
    /\ RawEventOf(trace).keyCode = AKEYCODE_DPAD_LEFT
    /\ mDisplay.o = ROTATION_270
    /\ Len(InterceptKeys(trace)) = 1
    /\ InterceptKeys(trace)[1].keyCode = AKEYCODE_DPAD_UP

(***************************************************************************)
(* C20: a key of a keyboard.                                               *)
(***************************************************************************)
\* C20: for a key event of a keyboard that is not ignored, with display info
\* at hand, the policy's interceptKey is asked once; notifyKey is called
\* once if its answer has DISPATCH and not at all if not; the key event has
\* the action DOWN or UP of the raw value, the flags FROM_SYSTEM, with
\* WOKE_HERE iff the answer has it, the rotated key code, the raw scan code,
\* the meta state of the device after this key and its latest down-time;
\* whatever the answer, the meta state of the device is updated, the cached
\* global meta state is dropped when it changed, and a key down sets the
\* down-time of the device to the time of the event.
C20_KeyDispatch ==
    [][\A d \in DeviceIds :
         KeyOf(d) =>
            LET raw == RawEventOf(trace')
                down == raw.value # 0
                old == mDevices[d].keyboard
                new == mDevices'[d].keyboard
                ik == InterceptKeys(trace')
                ke == KeyEvents(trace')
            IN  /\ Len(ik) = 1
                /\ ik[1].deviceId = d /\ ik[1].down = down /\ ik[1].scanCode = raw.scanCode
                /\ ik[1].keyCode = rotateKeyCode(raw.keyCode, mDisplay'.o)
                /\ new.metaState = updateMetaState(raw.keyCode, down, old.metaState)
                /\ new.metaState # old.metaState => mGlobalMetaState' = InvalidMeta
                /\ new.metaState = old.metaState => mGlobalMetaState' = mGlobalMetaState
                /\ new.downTime = (IF down THEN now' ELSE old.downTime)
                /\ Len(ke) = (IF "DISPATCH" \in ik[1].actions THEN 1 ELSE 0)
                /\ Len(ke) = 1 =>
                      /\ ke[1].deviceId = d
                      /\ ke[1].when = now'
                      /\ ke[1].action = (IF down THEN "KEY_DOWN" ELSE "KEY_UP")
                      /\ ke[1].flags = {"FROM_SYSTEM"} \cup (ik[1].actions \cap {"WOKE_HERE"})
                      /\ ke[1].keyCode = rotateKeyCode(raw.keyCode, mDisplay'.o)
                      /\ ke[1].scanCode = raw.scanCode
                      /\ ke[1].metaState = new.metaState
                      /\ ke[1].downTime = new.downTime]_vars

\* The policy woke the device on ALT_LEFT going down and dropped the key:
\* no key event, but the meta state and the down-time are those of this key.
C20_Witness ==
    /\ Handled(trace, "EV_KEY", AKEYCODE_ALT_LEFT)
    /\ Len(InterceptKeys(trace)) = 1
    /\ InterceptKeys(trace)[1].actions = {"WOKE_HERE"}
    /\ InterceptKeys(trace)[1].down
    /\ KeyEvents(trace) = <<>>
    /\ mDevices[1].keyboard.metaState = {"META_ALT_LEFT_ON", "META_ALT_ON"}
    /\ mDevices[1].keyboard.downTime = MaxTime
    /\ mGlobalMetaState = InvalidMeta

(***************************************************************************)
(* C21: the registry.                                                      *)
(***************************************************************************)
\* The configuration-changed notifications of an iteration.
ConfigurationChanges(t) == SelectSeq(t, LAMBDA e : e.op = "notifyConfigurationChanged")

\* What an iteration does to the registry: a device-added event for an id
\* that is not there adds it and notifies as `added' says of the new record,
\* a device-removed event for an id that is there takes it out and notifies
\* iff the record was not ignored, and nothing else changes the ids.
RegistryStep(added(_)) ==
    LET raw == RawEventOf(trace')
        id == raw.deviceId
        n == Len(ConfigurationChanges(trace'))
    IN  CASE raw.type = "DEVICE_ADDED" /\ id \notin DOMAIN mDevices ->
               /\ DOMAIN mDevices' = DOMAIN mDevices \cup {id}
               /\ mDevices'[id].id = id
               /\ n = added(mDevices'[id])
               /\ \A i \in DOMAIN mDevices : mDevices'[i] = mDevices[i]
          [] raw.type = "DEVICE_REMOVED" /\ id \in DOMAIN mDevices ->
               /\ DOMAIN mDevices' = DOMAIN mDevices \ {id}
               /\ n = (IF mDevices[id].ignored THEN 0 ELSE 1)
               /\ \A i \in DOMAIN mDevices' : mDevices'[i] = mDevices[i]
          [] OTHER -> DOMAIN mDevices' = DOMAIN mDevices

OneNotification(device) == 1

OneUnlessIgnored(device) == IF device.ignored THEN 0 ELSE 1

\* C21 as worded: every device-added event for an id that is not in the
\* registry inserts a record and sends exactly one configuration-changed
\* notification; every device-removed event for a registered id removes the
\* record and sends one iff the device was not ignored; nothing else changes
\* the ids of the registry.
C21_AsWorded == [][RegistryStep(OneNotification)]_vars

\* C21, amended: as above, but a device-added event sends its one
\* configuration-changed notification iff the new device is not ignored (the
\* event hub reports a class for it), as a device-removed event does.
C21_Registry == [][RegistryStep(OneUnlessIgnored)]_vars

\* A device that is no input device was added: it is in the registry, marked
\* ignored, and the dispatcher was told nothing.
C21_Witness ==
    /\ Handled(trace, "DEVICE_ADDED", 0)
    /\ Called(trace, "getDeviceClasses")
    /\ RawEventOf(trace).deviceId \in DOMAIN mDevices
    /\ mDevices[RawEventOf(trace).deviceId].ignored
    /\ ConfigurationChanges(trace) = <<>>

(***************************************************************************)
(* C22: spurious device events.                                            *)
(***************************************************************************)
\* The event read is a device-added event for an id in the registry or a
\* device-removed event for an id that is not in it.
Spurious(raw) ==
    \/ raw.type = "DEVICE_ADDED" /\ raw.deviceId \in DOMAIN mDevices
    \/ raw.type = "DEVICE_REMOVED" /\ raw.deviceId \notin DOMAIN mDevices

\* C22: a device-added event for an id already in the registry and a
\* device-removed event for an id not in it leave the registry, every device
\* record, the display properties, the global meta-state cache and the
\* exported state as they were, and no call is made on the policy, the
\* event hub or the dispatcher while they are handled.
C22_SpuriousIgnored ==
    [][Spurious(RawEventOf(trace')) =>
         /\ mDevices' = mDevices
         /\ mDisplay' = mDisplay
         /\ mGlobalMetaState' = mGlobalMetaState
         /\ mExported' = mExported
         /\ Len(trace') = 1]_vars

\* A keyboard that holds ALT down was announced a second time and still
\* holds it.
C22_Witness ==
    /\ Handled(trace, "DEVICE_ADDED", 0)
    /\ Len(trace) = 1
    /\ RawEventOf(trace).deviceId \in DOMAIN mDevices
    /\ mDevices[RawEventOf(trace).deviceId].keyboard.metaState # {}

(***************************************************************************)
(* C23: the exported input configuration.                                  *)
(***************************************************************************)
\* Some device of the registry has the class.
SomeHas(devices, class) == \E i \in DOMAIN devices : class \in devices[i].classes

\* The iteration added a device that is not ignored or removed one.
ConfigurationStep ==
    LET raw == RawEventOf(trace')
        id == raw.deviceId
    IN  \/ /\ raw.type = "DEVICE_ADDED" /\ id \notin DOMAIN mDevices
           /\ id \in DOMAIN mDevices' /\ ~mDevices'[id].ignored
        \/ /\ raw.type = "DEVICE_REMOVED" /\ id \in DOMAIN mDevices
           /\ ~mDevices[id].ignored

\* C23: after an iteration that added or removed a device that is not
\* ignored, the exported input configuration is that of the devices now in
\* the registry: touchScreen is FINGER iff one of them has the touchscreen
\* class and NOTOUCH if not, keyboard is QWERTY iff one has the alphakey
\* class and NOKEYS if not, navigation is NONAV iff none has the trackball
\* or the dpad class, TRACKBALL only if one has the trackball class and DPAD
\* only if one has the dpad class.
C23_ExportedConfiguration ==
    [][ConfigurationStep =>
         LET c == mExported'.inputConfiguration IN
         /\ c.touchScreen = (IF SomeHas(mDevices', CLASS_TOUCHSCREEN)
                             THEN "TOUCHSCREEN_FINGER" ELSE "TOUCHSCREEN_NOTOUCH")
         /\ c.keyboard = (IF SomeHas(mDevices', CLASS_ALPHAKEY)
                          THEN "KEYBOARD_QWERTY" ELSE "KEYBOARD_NOKEYS")
         /\ c.navigation = "NAVIGATION_NONAV" <=>
               ~(SomeHas(mDevices', CLASS_TRACKBALL) \/ SomeHas(mDevices', CLASS_DPAD))
         /\ c.navigation = "NAVIGATION_TRACKBALL" => SomeHas(mDevices', CLASS_TRACKBALL)
         /\ c.navigation = "NAVIGATION_DPAD" => SomeHas(mDevices', CLASS_DPAD)
         /\ c.navigation \in {"NAVIGATION_NONAV", "NAVIGATION_TRACKBALL", "NAVIGATION_DPAD"}]_vars

\* The only trackball was removed while a keyboard with letters stays: the
\* navigation is back to NONAV, the keyboard still QWERTY.
C23_Witness ==
    /\ Handled(trace, "DEVICE_REMOVED", 0)
    /\ Len(ConfigurationChanges(trace)) = 1
    /\ CLASS_TRACKBALL \in env.classes[RawEventOf(trace).deviceId]
    /\ RawEventOf(trace).deviceId \notin DOMAIN mDevices
    /\ SomeHas(mDevices, CLASS_ALPHAKEY)
    /\ mExported.inputConfiguration =
          [touchScreen |-> "TOUCHSCREEN_NOTOUCH", keyboard |-> "KEYBOARD_QWERTY",
           navigation |-> "NAVIGATION_NONAV"]

(***************************************************************************)
(* C24: a touch frame the policy drops.                                    *)
(***************************************************************************)
\* The answers of Policy::interceptTouch in an iteration.
InterceptTouches(t) == SelectSeq(t, LAMBDA e : e.op = "interceptTouch")

\* C24: when interceptTouch answers a touch frame without DISPATCH, the
\* dispatcher gets no motion and no key event, the policy is asked for no
\* key, the frame stays as it was assembled (no filter and no pointer-id
\* calculation ran over it), the virtual key, the exported state and the
\* down-time of the touch screen are unchanged, and lastTouch is empty; and
\* a frame with pointers that is dispatched with an empty lastTouch begins
\* with DOWN, followed by one POINTER_DOWN for every other pointer id of it.
C24_TouchPolicyDrop ==
    [][\A d \in DOMAIN mDevices :
         FrameOf(trace', d) =>
            LET frame == Frames(trace')[1]
                answer == InterceptTouches(trace')[1]
                old == mDevices[d].touchScreen
                new == mDevices'[d].touchScreen
                ev == MotionEvents(trace')
            IN  /\ Len(Frames(trace')) = 1 /\ Len(InterceptTouches(trace')) = 1
                /\ "DISPATCH" \notin answer.actions =>
                      /\ ev = <<>>
                      /\ KeyEvents(trace') = <<>>
                      /\ InterceptKeys(trace') = <<>>
                      /\ ~Called(trace', "consumeVirtualKeyTouches")
                      /\ ~Called(trace', "virtualKeyDownFeedback")
                      /\ new.currentTouch = frame.currentTouch
                      /\ new.currentVirtualKey = old.currentVirtualKey
                      /\ new.downTime = old.downTime
                      /\ mExported' = mExported
                      /\ new.lastTouch = TouchDataClear
                /\ ( /\ "DISPATCH" \in answer.actions
                     /\ old.lastTouch.pointerCount = 0
                     /\ Dispatched(trace')
                     /\ new.currentTouch.pointerCount > 0 ) =>
                      /\ Len(ev) = Cardinality(new.currentTouch.idBits)
                      /\ ev[1].action = "DOWN"
                      /\ \A i \in 2..Len(ev) : ev[i].action = "POINTER_DOWN"]_vars

\* The policy dropped a frame with a finger that has no tracking id yet
\* while the virtual key was down: the finger still has no id, the key is
\* still down and lastTouch is empty.
C24_Witness ==
    /\ 1 \in DOMAIN mDevices
    /\ FrameOf(trace, 1)
    /\ InterceptTouches(trace)[1].actions = {}
    /\ mDevices[1].touchScreen.currentTouch.pointerCount = 1
    /\ mDevices[1].touchScreen.currentTouch.pointers[1].id = NoId
    /\ mDevices[1].touchScreen.currentVirtualKey.status = STATUS_DOWN
    /\ mDevices[1].touchScreen.lastTouch = TouchDataClear

(***************************************************************************)
(* C25: no display info.                                                   *)
(***************************************************************************)
\* The answers of Policy::getDisplayInfo in an iteration.
DisplayInfos(t) == SelectSeq(t, LAMBDA e : e.op = "getDisplayInfo")

\* The touch accumulator of the device holds something to commit.
TouchDirty(device) ==
    \/ isMultiTouchScreen(device) /\ MTIsDirty(device.multiTouchScreen.accumulator)
    \/ isSingleTouchScreen(device) /\ STIsDirty(device.singleTouchScreen.accumulator)

\* The iteration read the SYN_REPORT of the device d, which is not ignored.
SyncOf(d) ==
    /\ Handled(trace', "EV_SYN", SYN_REPORT)
    /\ RawEventOf(trace').deviceId = d
    /\ d \in DOMAIN mDevices /\ ~mDevices[d].ignored

\* The iteration read a key of the device d that goes to onKey.
PlainKeyOf(d) ==
    /\ RawEventOf(trace').type = "EV_KEY"
    /\ RawEventOf(trace').deviceId = d
    /\ d \in DOMAIN mDevices /\ ~mDevices[d].ignored /\ isKeyboard(mDevices[d])
    /\ ~(isSingleTouchScreen(mDevices[d]) /\ RawEventOf(trace').scanCode = BTN_TOUCH)
    /\ ~(isTrackball(mDevices[d]) /\ RawEventOf(trace').scanCode = BTN_MOUSE)

\* C25: when getDisplayInfo fails, the very next call the iteration makes,
\* if it makes one, is the getDisplayInfo of its next handler, and the
\* display properties are unknown (-1) until it succeeds.  A key that finds
\* no display info changes nothing else in the reader; a dirty touch frame
\* that finds none leaves the touch screen state (the committed
\* single-touch state, currentTouch, lastTouch, the virtual key, the
\* down-time) as it was, a dirty trackball frame that finds none leaves the
\* button state and its down-time as they were, and the handler makes no
\* call on the policy or the dispatcher; the accumulators are clear after
\* the sync all the same.
C25_NoDisplayInfo ==
    [][LET t == trace'
           infos == DisplayInfos(t)
       IN  /\ \A i \in DOMAIN t :
                (t[i].op = "getDisplayInfo" /\ ~t[i].ok) =>
                   (i = Len(t) \/ t[i + 1].op = "getDisplayInfo")
           /\ (infos # <<>> /\ ~infos[Len(infos)].ok) => mDisplay' = UnknownDisplay
           /\ \A d \in DeviceIds :
                /\ PlainKeyOf(d) =>
                     /\ Len(infos) = 1
                     /\ ~infos[1].ok =>
                          /\ Len(t) = 2
                          /\ mDevices' = mDevices
                          /\ mGlobalMetaState' = mGlobalMetaState
                          /\ mExported' = mExported
                /\ (SyncOf(d) /\ TouchDirty(mDevices[d])) =>
                     /\ infos # <<>>
                     /\ ~TouchDirty(mDevices'[d])
                     /\ ~infos[1].ok =>
                          /\ Frames(t) = <<>> /\ InterceptTouches(t) = <<>>
                          /\ MotionEvents(t) = <<>> /\ KeyEvents(t) = <<>>
                          /\ InterceptKeys(t) = <<>>
                          /\ mDevices'[d].singleTouchScreen.current =
                                mDevices[d].singleTouchScreen.current
                          /\ \A f \in {"currentTouch", "lastTouch", "currentVirtualKey", "downTime"} :
                                mDevices'[d].touchScreen[f] = mDevices[d].touchScreen[f]
                          /\ mExported' = mExported
                /\ (SyncOf(d) /\ TBIsDirty(mDevices[d].trackball.accumulator)) =>
                     /\ infos # <<>>
                     /\ ~TBIsDirty(mDevices'[d].trackball.accumulator)
                     /\ ~infos[Len(infos)].ok =>
                          /\ ~Called(t, "interceptTrackball")
                          /\ \A i \in DOMAIN t :
                                t[i].op = "notifyMotion" => t[i].nature # "TRACKBALL"
                          /\ mDevices'[d].trackball.down = mDevices[d].trackball.down
                          /\ mDevices'[d].trackball.downTime = mDevices[d].trackball.downTime]_vars

\* A sync found a touch frame and a trackball frame and no display info for
\* either: two failed calls and nothing else, the virtual key still down,
\* the trackball button still down, the accumulators clear, the display
\* unknown.
C25_Witness ==
    /\ Handled(trace, "EV_SYN", SYN_REPORT)
    /\ Len(trace) = 3 /\ Len(DisplayInfos(trace)) = 2
    /\ ~trace[2].ok /\ ~trace[3].ok
    /\ mDisplay = UnknownDisplay
    /\ mDevices[1].touchScreen.currentVirtualKey.status = STATUS_DOWN
    /\ mDevices[1].trackball.down
    /\ ~TouchDirty(mDevices[1])
    /\ ~TBIsDirty(mDevices[1].trackball.accumulator)

(***************************************************************************)
(* C26: a trackball frame.                                                 *)
(***************************************************************************)
\* The trackball motion events handed to the dispatcher.
TrackballEvents(t) == SelectSeq(t, LAMBDA e : e.op = "notifyMotion" /\ e.nature = "TRACKBALL")

InterceptTrackballs(t) == SelectSeq(t, LAMBDA e : e.op = "interceptTrackball")

\* The movement <<x, y>> turned by the orientation of the display.
Turned(x, y, o) ==
    CASE o = ROTATION_90 -> <<y, FNeg(x)>>
      [] o = ROTATION_180 -> <<FNeg(x), FNeg(y)>>
      [] o = ROTATION_270 -> <<FNeg(y), x>>
      [] OTHER -> <<x, y>>

\* C26: at a SYN_REPORT that finds the trackball accumulator dirty, with
\* display info, the policy is asked once and, if it answers with DISPATCH,
\* the dispatcher gets exactly one TRACKBALL motion event (none if not): its
\* action is DOWN or UP, as the button went, if the frame holds the button,
\* and MOVE if not; it has the one pointer id 0 with pressure 1 and size 0,
\* x = relX / 6 if the frame holds REL_X and 0 if not, y likewise, turned by
\* the display orientation; both precisions are 6; its down-time is the
\* time of this frame if it pressed the button and that of the last press
\* otherwise.  A frame of REL_X = 6 alone under orientation 0 gives MOVE
\* with x = 1, y = 0.
C26_TrackballCommit ==
    [][\A d \in DeviceIds :
         ( /\ SyncOf(d)
           /\ TBIsDirty(mDevices[d].trackball.accumulator)
           /\ DisplayInfos(trace')[Len(DisplayInfos(trace'))].ok ) =>
            LET acc == mDevices[d].trackball.accumulator
                ev == TrackballEvents(trace')
                asked == InterceptTrackballs(trace')
                pressed == "BTN_MOUSE" \in acc.fields /\ acc.btnMouse
                x == IF "REL_X" \in acc.fields THEN Frac(acc.relX, 6) ELSE FInt(0)
                y == IF "REL_Y" \in acc.fields THEN Frac(acc.relY, 6) ELSE FInt(0)
                xy == Turned(x, y, mDisplay'.o)
            IN  /\ Len(asked) = 1
                /\ Len(ev) = (IF "DISPATCH" \in asked[1].actions THEN 1 ELSE 0)
                /\ mDevices'[d].trackball.downTime =
                      (IF pressed THEN now' ELSE mDevices[d].trackball.downTime)
                /\ Len(ev) = 1 =>
                      /\ ev[1].deviceId = d /\ ev[1].when = now'
                      /\ ev[1].action = (IF "BTN_MOUSE" \notin acc.fields THEN "MOVE"
                                         ELSE IF acc.btnMouse THEN "DOWN" ELSE "UP")
                      /\ ev[1].pointerIds = <<0>>
                      /\ Len(ev[1].pointerCoords) = 1
                      /\ ev[1].pointerCoords[1] =
                            [x |-> xy[1], y |-> xy[2], pressure |-> FInt(1), size |-> FInt(0)]
                      /\ ev[1].xPrecision = 6 /\ ev[1].yPrecision = 6
                      /\ ev[1].edgeFlags = {}
                      /\ ev[1].downTime = mDevices'[d].trackball.downTime
                      /\ (acc.fields = {"REL_X"} /\ acc.relX = 6 /\ mDisplay'.o = ROTATION_0) =>
                            /\ ev[1].action = "MOVE"
                            /\ ev[1].pointerCoords[1].x = <<1, 1>>
                            /\ ev[1].pointerCoords[1].y = <<0, 1>>]_vars

\* The button was pressed at time 0; at time 1 a frame of REL_X = 6 and
\* REL_Y = -3 under a display turned by 90 degrees was a MOVE by
\* (-1/2, -1) with the down-time 0.
C26_Witness ==
    /\ Handled(trace, "EV_SYN", SYN_REPORT)
    /\ now = 1
    /\ mDisplay.o = ROTATION_90
    /\ Len(TrackballEvents(trace)) = 1
    /\ TrackballEvents(trace)[1].action = "MOVE"
    /\ TrackballEvents(trace)[1].pointerCoords[1].x = <<-1, 2>>
    /\ TrackballEvents(trace)[1].pointerCoords[1].y = <<-1, 1>>
    /\ TrackballEvents(trace)[1].downTime = 0
    /\ mDevices[1].trackball.down

(***************************************************************************)
(* C27: display coordinates and edge flags.                                *)
(***************************************************************************)
\* f <= g for two fractions with positive denominators.
AtMost(f, g) == f[1] * g[2] <= g[1] * f[2]

\* The pointer of the frame that has the id.
PointerWithId(touch, id) ==
    touch.pointers[CHOOSE i \in 1..Len(touch.pointers) : touch.pointers[i].id = id]

\* (raw - origin) * scale as a fraction; a scale is <<numerator, denominator>>.
Scaled(raw, origin, scale) == Frac((raw - origin) * scale[1], scale[2])

\* The display position <<x, y>> of the raw position under the orientation o
\* of a display w wide and h high (w and h are those of orientation 0).
DisplayPosition(pointer, pre, w, h, o) ==
    LET x == Scaled(pointer.x, pre.xOrigin, pre.xScale)
        y == Scaled(pointer.y, pre.yOrigin, pre.yScale)
    IN  CASE o = ROTATION_0 -> <<x, y>>
          [] o = ROTATION_90 -> <<y, FSub(FInt(w), x)>>
          [] o = ROTATION_180 -> <<FSub(FInt(w), x), FSub(FInt(h), y)>>
          [] o = ROTATION_270 -> <<FSub(FInt(h), y), x>>

\* The edge flags of the display position <<x, y>> on a display that is,
\* as it is turned, width wide and height high.
EdgesOf(xy, width, height) ==
    (IF AtMost(xy[1], FInt(0)) THEN {"EDGE_LEFT"}
     ELSE IF AtMost(FInt(width), xy[1]) THEN {"EDGE_RIGHT"} ELSE {})
    \cup
    (IF AtMost(xy[2], FInt(0)) THEN {"EDGE_TOP"}
     ELSE IF AtMost(FInt(height), xy[2]) THEN {"EDGE_BOTTOM"} ELSE {})

\* C27: every pointer of every touch motion event has the coordinates
\* ((x - xOrigin) * xScale, (y - yOrigin) * yScale) of its raw position (that
\* of the last frame for a pointer going up, of the current frame
\* otherwise), turned by the display orientation: as they are at 0 degrees,
\* (y, displayWidth - x) at 90, (displayWidth - x, displayHeight - y) at
\* 180 and (displayHeight - y, x) at 270, displayWidth and displayHeight
\* being the size of the display as it is at 0 degrees; the edge flags of
\* an event that is not a DOWN are empty, those of a DOWN are the ones of
\* its first pointer's turned coordinates against 0 and the width and
\* height of the display as it is turned.
C27_DisplayCoordinates ==
    [][\A d \in DOMAIN mDevices :
         FrameOf(trace', d) =>
            LET ev == MotionEvents(trace')
                old == mDevices[d].touchScreen
                new == mDevices'[d].touchScreen
                turned == mDisplay'.o \in {ROTATION_90, ROTATION_270}
                width == IF turned THEN mDisplay'.h ELSE mDisplay'.w
                height == IF turned THEN mDisplay'.w ELSE mDisplay'.h
            IN  \A k \in DOMAIN ev :
                  LET e == ev[k]
                      touch == IF e.action \in {"UP", "POINTER_UP"}
                               THEN old.lastTouch ELSE new.currentTouch
                      at(i) == DisplayPosition(PointerWithId(touch, e.pointerIds[i]),
                                               new.precalculated,
                                               mDisplay'.w, mDisplay'.h, mDisplay'.o)
                  IN  /\ mDisplay'.o \in Orientations
                      /\ Len(e.pointerCoords) = Len(e.pointerIds)
                      /\ e.pointerIds # <<>>
                      /\ \A i \in DOMAIN e.pointerIds :
                            /\ e.pointerCoords[i].x = at(i)[1]
                            /\ e.pointerCoords[i].y = at(i)[2]
                      /\ e.edgeFlags = (IF e.action = "DOWN"
                                        THEN EdgesOf(at(1), width, height) ELSE {})]_vars

\* A finger went down at the raw position (1, 2) under a display of 3 by 2
\* turned by 270 degrees: it is at (0, 3/2), on the left edge.
C27_Witness ==
    /\ 1 \in DOMAIN mDevices
    /\ FrameOf(trace, 1)
    /\ mDisplay = [w |-> 3, h |-> 2, o |-> ROTATION_270]
    /\ mDevices[1].touchScreen.currentTouch.pointerCount = 1
    /\ mDevices[1].touchScreen.currentTouch.pointers[1].x = 1
    /\ mDevices[1].touchScreen.currentTouch.pointers[1].y = 2
    /\ Len(MotionEvents(trace)) = 1
    /\ MotionEvents(trace)[1].action = "DOWN"
    /\ MotionEvents(trace)[1].pointerCoords[1].x = <<0, 1>>
    /\ MotionEvents(trace)[1].pointerCoords[1].y = <<3, 2>>
    /\ MotionEvents(trace)[1].edgeFlags = {"EDGE_LEFT"}

(***************************************************************************)
(* The exported state as other threads see it.                             *)
(***************************************************************************)
\* The value thread q has put into its output of that name.
Out(q, name) ==
    LET i == CHOOSE i \in DOMAIN q.out : q.out[i][1] = name IN q.out[i][2]

\* The thread has executed the function to its return.
Returns(q, op) == q.op = op /\ InstructionOf(q).ins = "return"

\* A call of updateExportedVirtualKeyState that ran to its end wrote the pair.
WrittenTogether(keyCode, scanCode) ==
    \E u \in reader.updated :
        /\ u.op = "updateExportedVirtualKeyState"
        /\ u.writes[1].value = keyCode
        /\ u.writes[2].value = scanCode

\* A call of updateExportedInputConfiguration that ran to its end wrote the
\* triple.
WrittenTriple(touchScreen, keyboard, navigation) ==
    \E u \in reader.updated :
        /\ u.op = "updateExportedInputConfiguration"
        /\ u.writes[1].value = touchScreen
        /\ u.writes[2].value = keyboard
        /\ u.writes[3].value = navigation

VirtualKeySnapshot(q) ==
    Returns(q, "getCurrentVirtualKey") =>
        /\ WrittenTogether(Out(q, "keyCode"), Out(q, "scanCode"))
        /\ Out(q, "result") = (Out(q, "keyCode") # -1)

ConfigurationSnapshot(q) ==
    Returns(q, "getCurrentInputConfiguration") =>
        WrittenTriple(Out(q, "touchScreen"), Out(q, "keyboard"), Out(q, "navigation"))

\* C28: under every interleaving of the reader thread with the query
\* threads, getCurrentVirtualKey returns a pair of key code and scan code
\* that one call of updateExportedVirtualKeyState wrote, with the result
\* true iff the key code is not -1, and getCurrentInputConfiguration returns
\* a triple that one call of updateExportedInputConfiguration wrote.
C28_AtomicSnapshot ==
    \A t \in QueryThreads : VirtualKeySnapshot(queries[t]) /\ ConfigurationSnapshot(queries[t])

\* The thread holds the mutex only while it is at an assignment, a copy or a
\* comparison of the exported state, or at the end of the scope.
InCriticalSection(t) ==
    IF t = ReaderThread
    THEN reader.todo # <<>> /\ Head(reader.todo).call.op \in UpdateOps
    ELSE InstructionOf(queries[t]).ins \in {"read", "test", "unless", "unlock"}

\* The next step of the thread is a call on the event hub, the policy or the
\* dispatcher (for the reader thread, getEvent when the iteration is over).
AtExternalCall(t) ==
    IF t = ReaderThread
    THEN reader.todo = <<>> \/ Head(reader.todo).call.op \notin UpdateOps
    ELSE InstructionOf(queries[t]).ins = "call"

\* The thread that holds the mutex can take its next step whatever the
\* other threads do.
HolderRuns ==
    /\ mExportedStateLock = ReaderThread => ENABLED (ReaderWrite \/ ReaderUnlock)
    /\ \A t \in QueryThreads :
          mExportedStateLock = t => ENABLED (QueryRead(t) \/ QueryUnlock(t))

\* C29: no thread calls the event hub, the policy or the dispatcher while it
\* holds mExportedStateLock (the two key-state functions unlock before they
\* ask the event hub); a thread outside its critical sections, a query
\* thread that has returned included, does not hold it; the holder can always
\* run on to the end of its critical section, so no thread waits for the
\* mutex during an external call and the threads cannot deadlock on it.
C29_LockDiscipline ==
    /\ \A t \in QueryThreads \cup {ReaderThread} :
          /\ AtExternalCall(t) => mExportedStateLock # t
          /\ mExportedStateLock = t => InCriticalSection(t)
    /\ mExportedStateLock \in QueryThreads \cup {ReaderThread, Unlocked}
    /\ HolderRuns

\* Reached: the reader is inside a critical section, one query thread waits
\* for the mutex and another is in its call on the event hub.
C29_Witness ==
    \E t, u \in QueryThreads :
        /\ mExportedStateLock = ReaderThread
        /\ reader.writes # <<>>
        /\ InstructionOf(queries[t]).ins = "lock"
        /\ InstructionOf(queries[u]).ins = "call"

(***************************************************************************)
(* C30: the touch motion events of a device as the dispatcher sees them.   *)
(***************************************************************************)
\* Every event of the sequence fits what the dispatcher has seen before it:
\* DOWN when no pointer is down, any other action when one is.
RECURSIVE GestureOk(_, _)
GestureOk(down, events) ==
    \/ events = <<>>
    \/ /\ Head(events).action = "DOWN" <=> down = {}
       /\ Head(events).action \in {"DOWN", "MOVE", "POINTER_DOWN", "POINTER_UP", "UP"}
       /\ GestureOk(SeenAfter(down, Head(events)), Tail(events))

RECURSIVE KeysAlternate(_, _)
KeysAlternate(key, events) ==
    \/ events = <<>>
    \/ LET e == KeySeen(Head(events))
       IN  /\ e.action = "KEY_DOWN" => key.action \in {"NONE", "KEY_UP"}
           /\ e.action = "KEY_UP" => key = [e EXCEPT !.action = "KEY_DOWN"]
           /\ e.action \in {"KEY_DOWN", "KEY_UP"}
           /\ KeysAlternate(e, Tail(events))

\* C31: with an interceptKey that always answers DISPATCH, the virtual-key
\* events of a touch device (the device object, from its addition to its
\* removal) alternate key-down, key-up; every key-up, plain or CANCELED,
\* carries the keyCode, scanCode and downTime of the key-down before it; for
\* every sequence of touch frames, frames the policy drops included.
C31_VirtualKeysAlternate ==
    [][\A d \in DeviceIds :
         KeysAlternate(dispatcherSeen[d].key, VirtualKeyEventsOf(trace', d))]_vars

\* Reached: a key-up with CANCELED for a key that went down at an earlier
\* time.
C31_Witness ==
    /\ 1 \in DOMAIN mDevices
    /\ dispatcherSeen[1].key.action = "KEY_UP"
    /\ \E i \in DOMAIN trace :
          /\ trace[i].op = "notifyKey" /\ "CANCELED" \in trace[i].flags
          /\ trace[i].downTime < trace[i].when


(***************************************************************************)
(* What a query thread sees of the virtual key while the reader runs.      *)
(***************************************************************************)
\* Some registered device's virtual key is down in the reader's records.
AnyVirtualKeyDown ==
    \E d \in DOMAIN mDevices :
        mDevices[d].touchScreen.currentVirtualKey.status = STATUS_DOWN

\* The thread is in getCurrentVirtualKey with its result computed, the mutex
\* still held.
HasVirtualKeyResult(q) ==
    q.op = "getCurrentVirtualKey" /\ InstructionOf(q).ins = "unlock"

\* The reader thread has changed a device record or the registry in the
\* iteration it is in and has not yet made the call of
\* updateExportedVirtualKeyState that follows the change.
RefreshPending ==
    \E i \in DOMAIN reader.todo :
        reader.todo[i].call.op = "updateExportedVirtualKeyState"

\* C32 as worded: at every instant, in the middle of an iteration of the
\* reader too, the result getCurrentVirtualKey computes is true iff some
\* registered device's virtual key is down at that instant.
C32_AsWorded ==
    \A t \in QueryThreads :
        HasVirtualKeyResult(queries[t]) =>
            (Out(queries[t], "result") = AnyVirtualKeyDown)

\* C32: at every instant at which the reader thread has no call of
\* updateExportedVirtualKeyState left to make in the iteration it is in, the
\* result getCurrentVirtualKey computes is true iff some registered device's
\* virtual key is down at that instant.
C32_FreshOnceRefreshed ==
    \A t \in QueryThreads :
        (HasVirtualKeyResult(queries[t]) /\ ~RefreshPending) =>
            (Out(queries[t], "result") = AnyVirtualKeyDown)

\* A query computes true in the middle of an iteration of the reader, after
\* the refresh that followed the key going down.
C32_Witness ==
    /\ reader.todo # <<>>
    /\ ~RefreshPending
    /\ \E t \in QueryThreads :
          /\ HasVirtualKeyResult(queries[t])
          /\ Out(queries[t], "result")
          /\ AnyVirtualKeyDown


(***************************************************************************)
(* The cache of the global meta state.                                     *)
(***************************************************************************)
\* The events that carry the global meta state: the motion events and the
\* key events of virtual keys.
CarriesGlobalMetaState(e) ==
    \/ e.op = "notifyMotion"
    \/ e.op = "notifyKey" /\ "VIRTUAL_HARD_KEY" \in e.flags

\* C33: after every iteration the cached global meta state is the invalid
\* marker or the OR of the meta states of the registered keyboards, and
\* every touch, trackball and virtual-key event dispatched in the iteration
\* carries the OR of the meta states of the registered keyboards.
C33_MetaStateCache ==
    [][/\ mGlobalMetaState' \in {InvalidMeta, MetaOr(mDevices', DOMAIN mDevices')}
       /\ \A i \in DOMAIN trace' :
             CarriesGlobalMetaState(trace'[i]) =>
                trace'[i].metaState = MetaOr(mDevices', DOMAIN mDevices')]_vars

\* A virtual-key event of one device carries the ALT of the other device's
\* keyboard, filled into the cache after a key event had invalidated it.
C33_Witness ==
    /\ DOMAIN mDevices = {1, 2}
    /\ mDevices[1].keyboard.metaState = {}
    /\ mDevices[2].keyboard.metaState = {"META_ALT_LEFT_ON", "META_ALT_ON"}
    /\ mGlobalMetaState # InvalidMeta
    /\ \E i \in DOMAIN trace :
          /\ trace[i].op = "notifyKey"
          /\ trace[i].deviceId = 1
          /\ "VIRTUAL_HARD_KEY" \in trace[i].flags
          /\ trace[i].metaState = {"META_ALT_LEFT_ON", "META_ALT_ON"}


(***************************************************************************)
(* A key press while the display turns.                                    *)
(***************************************************************************)
\* C34: the key-up dispatched for a key of a keyboard carries the key code
\* that the key-down dispatched for the same press of that scan code
\* carried, whatever orientations the display has in between.
C34_KeyUpMatchesDown ==
    [][\A d \in DeviceIds :
         \A i \in DOMAIN KeyboardEventsOf(trace', d) :
            LET e == KeyboardEventsOf(trace', d)[i] IN
            e.action = "KEY_UP" =>
               \A p \in dispatcherSeen[d].pressed :
                  p.scanCode = e.scanCode => p.keyCode = e.keyCode]_vars


(***************************************************************************)
(* The exported navigation and the order of the registry.                  *)
(***************************************************************************)
\* C35: after an iteration that added or removed a device that is not
\* ignored, the exported navigation is TRACKBALL if some registered device
\* has the trackball class, and DPAD only if none has the trackball class
\* and some device has the dpad class, whatever the ids of the devices.
C35_NavigationOrderFree ==
    [][ConfigurationStep =>
         LET c == mExported'.inputConfiguration IN
         /\ SomeHas(mDevices', CLASS_TRACKBALL) => c.navigation = "NAVIGATION_TRACKBALL"
         /\ c.navigation = "NAVIGATION_DPAD" =>
               /\ ~SomeHas(mDevices', CLASS_TRACKBALL)
               /\ SomeHas(mDevices', CLASS_DPAD)]_vars


(***************************************************************************)
(* The id sets dispatchTouches hands to dispatchTouch.                     *)
(***************************************************************************)
\* The pointers event e lists.
ListedIds(e) == {e.pointerIds[i] : i \in DOMAIN e.pointerIds}

\* Event e lists what dispatchTouch reads from `touch': ids of its idBits,
\* each with a slot below its pointerCount, at least one and at most
\* MAX_POINTERS of them.
ReadsFrom(e, touch) ==
    /\ ListedIds(e) \subseteq touch.idBits
    /\ \A id \in ListedIds(e) : touch.idToIndex[id] < touch.pointerCount
    /\ Len(e.pointerIds) \in 1..MAX_POINTERS
    /\ Len(e.pointerIds) = Cardinality(ListedIds(e))

\* The events ev, in order, starting from the pointers `active' that are
\* down: an up event lists the pointers down before it and reads them from
\* lastTouch, a down event lists the pointers down after it and a move the
\* pointers that stay down, read from currentTouch.
RECURSIVE ListsActive(_, _, _, _)
ListsActive(ev, active, lastTouch, currentTouch) ==
    IF ev = <<>> THEN TRUE
    ELSE LET e == Head(ev)
             id == EventId(e)
             up == e.action \in {"UP", "POINTER_UP"}
             down == e.action \in {"DOWN", "POINTER_DOWN"}
             after == IF up THEN active \ {id}
                      ELSE IF down THEN active \cup {id} ELSE active
         IN  /\ up => id \in active /\ ListedIds(e) = active /\ ReadsFrom(e, lastTouch)
             /\ down => id \notin active /\ ListedIds(e) = after /\ ReadsFrom(e, currentTouch)
             /\ e.action = "MOVE" => ListedIds(e) = active /\ ReadsFrom(e, currentTouch)
             /\ ListsActive(Tail(ev), after, lastTouch, currentTouch)

\* C36: the touch events of a frame that dispatchTouches dispatched list,
\* one after the other, the pointers that are down before each up and after
\* each down, starting from the idBits of lastTouch; each event's ids are
\* among the idBits of the frame it reads (lastTouch for an up, currentTouch
\* for a down or a move), each of them has a slot below that frame's
\* pointerCount, and there are between 1 and MAX_POINTERS of them.
C36_IdSets ==
    [][\A d \in DeviceIds :
         (FrameOf(trace', d) /\ Dispatched(trace')) =>
            ListsActive(MotionEvents(trace'), mDevices[d].touchScreen.lastTouch.idBits,
                        mDevices[d].touchScreen.lastTouch,
                        mDevices'[d].touchScreen.currentTouch)]_vars

\* A frame in which one of two fingers went up and another came down: a
\* POINTER_UP that lists the two that were down, then a POINTER_DOWN that
\* lists the two that are down.
C36_Witness ==
    /\ Dispatched(trace)
    /\ Len(MotionEvents(trace)) = 2
    /\ MotionEvents(trace)[1].action = "POINTER_UP"
    /\ MotionEvents(trace)[2].action = "POINTER_DOWN"
    /\ Len(MotionEvents(trace)[1].pointerIds) = 2
    /\ MotionEvents(trace)[1].pointerIds # MotionEvents(trace)[2].pointerIds


(***************************************************************************)
(* Devices that are ignored or unknown.                                    *)
(***************************************************************************)
\* The event read is an input event of a device that is not in the registry
\* or is ignored.
OfNoDevice(raw) ==
    /\ raw.type \in {"EV_SYN", "EV_KEY", "EV_REL", "EV_ABS", "EV_SW"}
    /\ raw.deviceId \in DOMAIN mDevices => mDevices[raw.deviceId].ignored

\* The iteration added an ignored device or removed one.
IgnoredDeviceStep(raw) ==
    \/ /\ raw.type = "DEVICE_ADDED" /\ raw.deviceId \notin DOMAIN mDevices
       /\ raw.deviceId \in DOMAIN mDevices' /\ mDevices'[raw.deviceId].ignored
    \/ /\ raw.type = "DEVICE_REMOVED" /\ raw.deviceId \in DOMAIN mDevices
       /\ mDevices[raw.deviceId].ignored

\* C37: a sync, key, relative-motion, absolute-motion or switch event of a
\* device that is not registered or is ignored makes no call on the policy
\* or the dispatcher and leaves every device record, the meta-state cache
\* and the exported state as they were; adding or removing an ignored device
\* sends no configuration-changed notification and leaves the exported input
\* configuration as it was.
C37_IgnoredInert ==
    [][LET raw == RawEventOf(trace') IN
       /\ OfNoDevice(raw) =>
             /\ Len(trace') = 1
             /\ mDevices' = mDevices
             /\ mGlobalMetaState' = mGlobalMetaState
             /\ mExported' = mExported
       /\ IgnoredDeviceStep(raw) =>
             /\ ConfigurationChanges(trace') = <<>>
             /\ mExported'.inputConfiguration = mExported.inputConfiguration]_vars

\* A switch event of an ignored device was read while a keyboard holds ALT
\* down and the cache of the meta state is filled or not: nothing was called.
C37_Witness ==
    /\ Handled(trace, "EV_SW", 0)
    /\ Len(trace) = 1
    /\ RawEventOf(trace).deviceId \in DOMAIN mDevices
    /\ mDevices[RawEventOf(trace).deviceId].ignored
    /\ \E d \in DOMAIN mDevices : mDevices[d].keyboard.metaState # {}

====
